---- MODULE Spec2Model ----
(***************************************************************************)
(* Model of the CpG-to-gene mapping / gap-analysis engine and of the trait *)
(* aggregation of src/original_annotation/modules/cpg_integration.py.      *)
(*                                                                         *)
(* Text is modelled as a sequence of one-character strings, so that        *)
(* splitting, trimming, joining, formatting and the code-point comparison  *)
(* of Python strings are computed the way the code computes them.  A       *)
(* missing cell (NaN) of a text column is the value NaN below, which is no *)
(* text: its only element is not a character.                              *)
(*                                                                         *)
(* Every function of the module is pure: a specification draws the         *)
(* arguments of one call in its initial states and its action is the call. *)
(***************************************************************************)
EXTENDS Integers, Sequences, FiniteSets, TLC

VARIABLES pc,                   \* which call is pending, or "done" / "raised"
          df,                   \* expand_cpg_gene_mappings: the mapping table
          expanded_df,          \* expand_cpg_gene_mappings: the returned table
          atlas_df,             \* the EWAS Atlas table (both consumers)
          living_df,            \* analyze_unmapped_genes: the gene table
          cpg_unmapped_strings, \* analyze_unmapped_genes: returned dict
          unaccounted_df,       \* analyze_unmapped_genes: diagnostic ledger
          appendix_c_df,        \* analyze_unmapped_genes: appendix table
          mapping_df,           \* attach_ewas_atlas_traits: the left table
          result_df,            \* attach_ewas_atlas_traits: returned table
          genes_df,             \* annotate_with_disgenet: the gene table given
          disgenet_df,          \* annotate_with_disgenet: the DisGeNET export
          gene_db,              \* main: the gene table, annotated in place
          calls                 \* the invocations of one process, in order

vars == <<pc, df, expanded_df, atlas_df, living_df, cpg_unmapped_strings,
          unaccounted_df, appendix_c_df, mapping_df, result_df,
          genes_df, disgenet_df, gene_db, calls>>

----------------------------------------------------------------------------
(* Text *)

\* pandas' missing value of a text column
NaN == <<"NaN">>

\* the text of a Python literal, one element per character
Txt_unmapped == <<"u", "n", "m", "a", "p", "p", "e", "d">>

\* Python's ord() on the characters the model compares
CodePoint(c) ==
    CASE c = "\n" -> 10
      [] c = " " -> 32
      [] c = "\"" -> 34
      [] c = "," -> 44
      [] c = "." -> 46
      [] c = "0" -> 48
      [] c = "1" -> 49
      [] c = "2" -> 50
      [] c = "3" -> 51
      [] c = "4" -> 52
      [] c = "5" -> 53
      [] c = "6" -> 54
      [] c = "7" -> 55
      [] c = "8" -> 56
      [] c = "9" -> 57
      [] c = ";" -> 59
      [] c = "A" -> 65
      [] c = "B" -> 66
      [] c = "D" -> 68
      [] c = "G" -> 71
      [] c = "N" -> 78
      [] c = "[" -> 91
      [] c = "]" -> 93
      [] c = "a" -> 97
      [] c = "n" -> 110

\* str.isspace() of one character
IsSpace(c) == c \in {" ", "\n"}

\* s[i:] and s[:i] of Python, 1-based here
Drop(s, n) == SubSeq(s, n + 1, Len(s))
Take(s, n) == SubSeq(s, 1, n)

\* the positions of character c in s
IndexesOf(s, c) == {i \in 1..Len(s) : s[i] = c}

\* sep in s, for a one-character sep
Contains(s, c) == IndexesOf(s, c) # {}

\* str.split(sep) for a one-character separator: always at least one piece,
\* empty pieces kept
RECURSIVE Split(_, _)
Split(s, sep) ==
    IF ~Contains(s, sep)
    THEN <<s>>
    ELSE LET i == CHOOSE k \in IndexesOf(s, sep) :
                     \A j \in IndexesOf(s, sep) : k <= j
         IN <<Take(s, i - 1)>> \o Split(Drop(s, i), sep)

\* str.lstrip(), str.rstrip(), str.strip()
RECURSIVE LStrip(_)
LStrip(s) == IF s # <<>> /\ IsSpace(Head(s)) THEN LStrip(Tail(s)) ELSE s

RECURSIVE RStrip(_)
RStrip(s) ==
    IF s # <<>> /\ IsSpace(s[Len(s)]) THEN RStrip(Take(s, Len(s) - 1)) ELSE s

Strip(s) == LStrip(RStrip(s))

\* sep.join(parts)
RECURSIVE Join(_, _)
Join(parts, sep) ==
    IF parts = <<>> THEN <<>>
    ELSE IF Len(parts) = 1 THEN parts[1]
    ELSE parts[1] \o sep \o Join(Tail(parts), sep)

\* a < b on Python strings: by code point, a proper prefix first
RECURSIVE StrLess(_, _)
StrLess(a, b) ==
    IF b = <<>> THEN FALSE
    ELSE IF a = <<>> THEN TRUE
    ELSE IF Head(a) = Head(b) THEN StrLess(Tail(a), Tail(b))
    ELSE CodePoint(Head(a)) < CodePoint(Head(b))

\* the concatenation of a sequence of sequences
RECURSIVE Flatten(_)
Flatten(ss) == IF ss = <<>> THEN <<>> ELSE Head(ss) \o Flatten(Tail(ss))

\* all texts over an alphabet of at most n characters
TextsUpTo(alphabet, n) == UNION {[1..k -> alphabet] : k \in 0..n}

----------------------------------------------------------------------------
(* expand_cpg_gene_mappings *)

\* longest gene field drawn for a mapping row
MaxFieldLen == 5

FieldChars == {"A", "B", ",", " "}

\* the unique_gene_name cells drawn: every text up to the bound, and NaN
GeneFields == TextsUpTo(FieldChars, MaxFieldLen) \cup {NaN}

\* the other columns of a mapping row (cpg, chr, Start_hg38, End_hg38)
Loci ==
    { [cpg |-> "cg07252486", chr |-> "chr11", Start_hg38 |-> 131663304,
       End_hg38 |-> 131663306],
      [cpg |-> "cg22084806", chr |-> "chr2", Start_hg38 |-> 113503692,
       End_hg38 |-> 113503694] }

MappingRow(l, g) ==
    [cpg |-> l.cpg, chr |-> l.chr, Start_hg38 |-> l.Start_hg38,
     End_hg38 |-> l.End_hg38, unique_gene_name |-> g]

MappingRows == {MappingRow(l, g) : l \in Loci, g \in GeneFields}

\* a second row of a two-row table
SecondRows ==
    {MappingRow(l, g) : l \in Loci, g \in {NaN, <<"B", ",", "A">>}}

\* the mapping tables drawn: empty, one row, two rows
MappingTables ==
    {<<>>} \cup {<<r>> : r \in MappingRows}
           \cup {<<r, s>> : r \in MappingRows, s \in SecondRows}

\* Series.fillna('unmapped') on one cell
FillnaUnmapped(cell) == IF cell = NaN THEN Txt_unmapped ELSE cell

\* ExplodeRow without the trailing str.strip() of the exploded cells
ExplodeRow_NoStrip(row, index) ==
    LET filled == FillnaUnmapped(row.unique_gene_name)
        pieces == Split(filled, ",")
    IN [k \in 1..Len(pieces) |->
          [index |-> index, cpg |-> row.cpg, chr |-> row.chr,
           Start_hg38 |-> row.Start_hg38, End_hg38 |-> row.End_hg38,
           unique_gene_name |-> filled, gene |-> pieces[k]]]

\* one source row after fillna, str.split(','), explode and str.strip():
\* the rows keep the index label of their source row
ExplodeRow(row, index) ==
    LET filled == FillnaUnmapped(row.unique_gene_name)
        pieces == Split(filled, ",")
    IN [k \in 1..Len(pieces) |->
          [index |-> index, cpg |-> row.cpg, chr |-> row.chr,
           Start_hg38 |-> row.Start_hg38, End_hg38 |-> row.End_hg38,
           unique_gene_name |-> filled, gene |-> Strip(pieces[k])]]

\* expand_cpg_gene_mappings(df)
expand_cpg_gene_mappings(table) ==
    Flatten([i \in 1..Len(table) |-> ExplodeRow(table[i], i - 1)])

InitExpand ==
    /\ pc = "expand"
    /\ df \in MappingTables
    /\ expanded_df = <<>>
    /\ atlas_df = <<>>
    /\ living_df = <<>>
    /\ cpg_unmapped_strings = <<>>
    /\ unaccounted_df = <<>>
    /\ appendix_c_df = <<>>
    /\ mapping_df = <<>>
    /\ result_df = <<>>
    /\ genes_df = <<>>
    /\ disgenet_df = <<>>
    /\ gene_db = <<>>
    /\ calls = <<>>

\* the argument as the call leaves it: the function works on
\* expanded_df = df.copy(), so the assignments of the columns
\* unique_gene_name and gene never reach the caller's table
expand_leaves_InPlace(table) ==
    [k \in 1..Len(table) |->
        [table[k] EXCEPT !.unique_gene_name = FillnaUnmapped(@)]]

expand_leaves(table) == table

ExpandCpgGeneMappings ==
    /\ pc = "expand"
    /\ expanded_df' = expand_cpg_gene_mappings(df)
    /\ df' = expand_leaves(df)
    /\ pc' = "done"
    /\ UNCHANGED <<atlas_df, living_df, cpg_unmapped_strings,
                   unaccounted_df, appendix_c_df, mapping_df, result_df,
                   genes_df, disgenet_df, gene_db, calls>>

NextExpand == ExpandCpgGeneMappings

SpecExpand == InitExpand /\ [][NextExpand]_vars

----------------------------------------------------------------------------
(* analyze_unmapped_genes *)

\* Python's None in a cell of an object column, and the text str(None)
None == <<"None">>
Txt_None == <<"N", "o", "n", "e">>

Txt_Established == <<"E", "s", "t", "a", "b", "l", "i", "s", "h", "e", "d", ":", " ">>
Txt_Unestablished ==
    <<"U", "n", "e", "s", "t", "a", "b", "l", "i", "s", "h", "e", "d", ":", " ">>

\* pd.isna / pd.notna of a scalar cell
IsNa(cell) == cell \in {NaN, None}

\* bool(x) of a cell or of a dict.get result: None and '' are false, NaN
\* (a non-zero float) and every non-empty text are true
Truthy(x) == x \notin {None, <<>>}

\* x inserted into the ascending list srt, after the elements equal to it
RECURSIVE Insert(_, _)
Insert(srt, x) ==
    IF srt = <<>> THEN <<x>>
    ELSE IF StrLess(x, Head(srt)) THEN <<x>> \o srt
    ELSE <<Head(srt)>> \o Insert(Tail(srt), x)

\* sorted(list of str)
RECURSIVE Sorted(_)
Sorted(list) ==
    IF list = <<>> THEN <<>>
    ELSE Insert(Sorted(Take(list, Len(list) - 1)), list[Len(list)])

\* [f(x) for x in list if p(x)] helpers on lists of texts
StripAll(list) == [k \in 1..Len(list) |-> Strip(list[k])]
NonEmpty(list) == SelectSeq(list, LAMBDA t : t # <<>>)

\* [g.strip() for g in text.split(';') if g.strip()]
SplitSemicolons(text) == NonEmpty(StripAll(Split(text, ";")))

\* one element of a JSON array: a string literal without escapes
IsJsonString(t) ==
    /\ Len(t) >= 2
    /\ t[1] = "\"" /\ t[Len(t)] = "\""
    /\ \A j \in 2..(Len(t) - 1) : t[j] # "\""

\* json.loads on a text that is read as an array of string literals (the
\* synonym fields drawn hold no other JSON value and no comma inside a
\* literal): ok is FALSE where json.loads raises
JsonLoads(text) ==
    LET t == Strip(text)
        inner == SubSeq(t, 2, Len(t) - 1)
        items == StripAll(Split(inner, ","))
    IN IF Len(t) < 2 \/ t[1] # "[" \/ t[Len(t)] # "]"
       THEN [ok |-> FALSE, value |-> <<>>]
       ELSE IF Strip(inner) = <<>>
       THEN [ok |-> TRUE, value |-> <<>>]
       ELSE IF \A k \in 1..Len(items) : IsJsonString(items[k])
       THEN [ok |-> TRUE,
             value |-> [k \in 1..Len(items) |->
                           SubSeq(items[k], 2, Len(items[k]) - 1)]]
       ELSE [ok |-> FALSE, value |-> <<>>]

\* a synonyms cell that is no text: a number, and an actual list of texts
NumberCell(n) == <<"number", n>>
ListCell(items) == <<"list", items>>

IsNumberCell(cell) == Len(cell) = 2 /\ cell[1] = "number"
IsListCell(cell) == Len(cell) = 2 /\ cell[1] = "list"

\* bool(pd.notna(synonyms_raw)) of the test that precedes the try block:
\* the outcomes a build can produce.  pd.notna of a list is an array of
\* booleans, whose truth value raises ValueError for two elements or more
\* and, for no element, is False with a deprecation warning or raises,
\* depending on the numpy version
NotnaOutcomes(cell) ==
    IF IsListCell(cell)
    THEN (IF Len(cell[2]) >= 2 THEN {"raise"}
          ELSE IF Len(cell[2]) = 0 THEN {"false", "raise"}
          ELSE IF IsNa(cell[2][1]) THEN {"false"} ELSE {"true"})
    ELSE IF IsNa(cell) THEN {"false"} ELSE {"true"}

\* RecordSynonyms that reads a text json.loads rejects as a ';' list
RecordSynonyms_SplitsMalformed(synonyms_raw) ==
    IF "true" \notin NotnaOutcomes(synonyms_raw) THEN <<>>
    ELSE IF IsNumberCell(synonyms_raw) THEN <<>>
    ELSE IF IsListCell(synonyms_raw) THEN synonyms_raw[2]
    ELSE IF synonyms_raw # <<>> /\ synonyms_raw[1] = "["
    THEN (IF JsonLoads(synonyms_raw).ok
          THEN JsonLoads(synonyms_raw).value
          ELSE SplitSemicolons(synonyms_raw))
    ELSE SplitSemicolons(synonyms_raw)

\* the synonyms one gene record contributes: the try block of the index
\* loop; a parse failure (json.loads on a text that is no JSON, iterating
\* a number) is swallowed and nothing is contributed
RecordSynonyms(synonyms_raw) ==
    IF "true" \notin NotnaOutcomes(synonyms_raw) THEN <<>>
    ELSE IF IsNumberCell(synonyms_raw) THEN <<>>
    ELSE IF IsListCell(synonyms_raw) THEN synonyms_raw[2]
    ELSE IF synonyms_raw # <<>> /\ synonyms_raw[1] = "["
    THEN (IF JsonLoads(synonyms_raw).ok
          THEN JsonLoads(synonyms_raw).value ELSE <<>>)
    ELSE SplitSemicolons(synonyms_raw)

\* dict assignment d[k] = v
DictSet(d, k, v) ==
    [x \in (DOMAIN d) \cup {k} |-> IF x = k THEN v ELSE d[x]]

\* dict.get(k), None when absent
DictGet(d, k) == IF k \in DOMAIN d THEN d[k] ELSE None

EmptyDict == [x \in {} |-> None]

\* synonyms_map[str(syn)] = symbol for each synonym of one record
RECURSIVE PutSynonyms(_, _, _)
PutSynonyms(map, synonyms, symbol) ==
    IF synonyms = <<>> THEN map
    ELSE PutSynonyms(DictSet(map, Head(synonyms), symbol), Tail(synonyms),
                     symbol)

\* the synonym -> symbol dict after the rows of the gene table, in order
RECURSIVE BuildSynonymsMap(_, _)
BuildSynonymsMap(living, map) ==
    IF living = <<>> THEN map
    ELSE BuildSynonymsMap(
           Tail(living),
           PutSynonyms(map, RecordSynonyms(Head(living).synonyms),
                       Head(living).symbol))

\* synonyms_map kept in a module-level dict: the index starts from the one
\* the previous invocation of the process built
synonyms_map_KeptAcrossCalls(living) ==
    BuildSynonymsMap(
        living,
        IF calls # <<>> /\ calls[Len(calls)].fn = "analyze_unmapped_genes"
        THEN BuildSynonymsMap(calls[Len(calls)].args.living_df, EmptyDict)
        ELSE EmptyDict)

\* synonyms_map = {} at the start of every call, then the loop over the rows
synonyms_map(living) == BuildSynonymsMap(living, EmptyDict)

\* set(living_df['symbol'].dropna().astype(str).unique())
existing_symbols(living) ==
    {living[i].symbol : i \in {j \in 1..Len(living) : ~IsNa(living[j].symbol)}}

\* DataFrame.drop_duplicates(): the first occurrence of each row is kept
RECURSIVE DropDuplicates(_)
DropDuplicates(rows) ==
    IF rows = <<>> THEN <<>>
    ELSE LET init == Take(rows, Len(rows) - 1)
             last == rows[Len(rows)]
         IN IF \E k \in 1..Len(init) : init[k] = last
            THEN DropDuplicates(init)
            ELSE DropDuplicates(init) \o <<last>>

\* atlas_df[['cpg', 'genes']].drop_duplicates()
cpg_genes(atlas) ==
    DropDuplicates([k \in 1..Len(atlas) |->
                      [cpg |-> atlas[k].cpg, genes |-> atlas[k].genes]])

\* UnmappedRecord that never names the parent symbol
UnmappedRecord_NoParent(cpg, genes_str, gene, smap) ==
    [cpg |-> cpg, ewas_genes |-> genes_str, uncaptured_gene |-> gene,
     synonym_of |-> Txt_None, is_decimal |-> Contains(gene, ".")]

\* the diagnostic record appended for one token that is no symbol
UnmappedRecord(cpg, genes_str, gene, smap) ==
    [cpg |-> cpg, ewas_genes |-> genes_str, uncaptured_gene |-> gene,
     synonym_of |-> IF Truthy(DictGet(smap, gene))
                    THEN DictGet(smap, gene) ELSE Txt_None,
     is_decimal |-> Contains(gene, ".")]

\* ProcessPair without the test against existing_symbols
ProcessPair_NoSymbolCheck(row, symbols, smap) ==
    LET full_atlas_genes ==
            IF IsNa(row.genes) THEN <<>> ELSE SplitSemicolons(row.genes)
        unmapped ==
            SelectSeq(full_atlas_genes, LAMBDA g : ~Truthy(DictGet(smap, g)))
        decimal == SelectSeq(full_atlas_genes, LAMBDA g : Contains(g, "."))
    IN [records |-> [k \in 1..Len(full_atlas_genes) |->
                       UnmappedRecord(row.cpg, row.genes, full_atlas_genes[k],
                                      smap)],
        appendix |-> [k \in 1..Len(decimal) |->
                        [cpg |-> row.cpg, genes |-> decimal[k]]],
        unmapped_established
        |-> SelectSeq(unmapped, LAMBDA g : ~Contains(g, ".")),
        unmapped_unestablished
        |-> SelectSeq(unmapped, LAMBDA g : Contains(g, "."))]

\* ProcessPair that collects the appendix tokens after the symbol test
ProcessPair_AppendixAfterCheck(row, symbols, smap) ==
    LET full_atlas_genes ==
            IF IsNa(row.genes) THEN <<>> ELSE SplitSemicolons(row.genes)
        not_symbol == SelectSeq(full_atlas_genes, LAMBDA g : g \notin symbols)
        unmapped == SelectSeq(not_symbol, LAMBDA g : ~Truthy(DictGet(smap, g)))
        decimal == SelectSeq(not_symbol, LAMBDA g : Contains(g, "."))
    IN [records |-> [k \in 1..Len(not_symbol) |->
                       UnmappedRecord(row.cpg, row.genes, not_symbol[k], smap)],
        appendix |-> [k \in 1..Len(decimal) |->
                        [cpg |-> row.cpg, genes |-> decimal[k]]],
        unmapped_established
        |-> SelectSeq(unmapped, LAMBDA g : ~Contains(g, ".")),
        unmapped_unestablished
        |-> SelectSeq(unmapped, LAMBDA g : Contains(g, "."))]

\* the body of the loop over cpg_genes for one (cpg, genes) row: what it
\* appends to unmapped_records and appendix_c_source, and its two lists
ProcessPair(row, symbols, smap) ==
    LET full_atlas_genes ==
            IF IsNa(row.genes) THEN <<>> ELSE SplitSemicolons(row.genes)
        not_symbol == SelectSeq(full_atlas_genes, LAMBDA g : g \notin symbols)
        unmapped == SelectSeq(not_symbol, LAMBDA g : ~Truthy(DictGet(smap, g)))
        decimal == SelectSeq(full_atlas_genes, LAMBDA g : Contains(g, "."))
    IN [records |-> [k \in 1..Len(not_symbol) |->
                       UnmappedRecord(row.cpg, row.genes, not_symbol[k], smap)],
        appendix |-> [k \in 1..Len(decimal) |->
                        [cpg |-> row.cpg, genes |-> decimal[k]]],
        unmapped_established
        |-> SelectSeq(unmapped, LAMBDA g : ~Contains(g, ".")),
        unmapped_unestablished
        |-> SelectSeq(unmapped, LAMBDA g : Contains(g, "."))]


\* the "main XL column" text of one pair: the parts joined by "; "
UnmappedString(established, unestablished) ==
    LET e == IF established = <<>> THEN <<>>
             ELSE <<Txt_Established \o Join(Sorted(established), <<",", " ">>)>>
        u == IF unestablished = <<>> THEN <<>>
             ELSE <<Txt_Unestablished
                      \o Join(Sorted(unestablished), <<",", " ">>)>>
    IN Join(e \o u, <<";", " ">>)

\* cpg_unmapped_strings after the pairs, in order: a pair with an unmapped
\* token assigns the entry of its cpg
RECURSIVE BuildUnmappedStrings(_, _, _, _)
BuildUnmappedStrings(pairs, symbols, smap, dict) ==
    IF pairs = <<>> THEN dict
    ELSE LET r == ProcessPair(Head(pairs), symbols, smap)
             d == IF r.unmapped_established # <<>>
                     \/ r.unmapped_unestablished # <<>>
                  THEN DictSet(dict, Head(pairs).cpg,
                               UnmappedString(r.unmapped_established,
                                              r.unmapped_unestablished))
                  ELSE dict
         IN BuildUnmappedStrings(Tail(pairs), symbols, smap, d)

\* unmapped_records and appendix_c_source after all the pairs
AllRecords(pairs, symbols, smap) ==
    Flatten([k \in 1..Len(pairs) |->
               ProcessPair(pairs[k], symbols, smap).records])

AllAppendix(pairs, symbols, smap) ==
    Flatten([k \in 1..Len(pairs) |->
               ProcessPair(pairs[k], symbols, smap).appendix])

\* unaccounted_df: the records that are no decimals, is_decimal dropped
LedgerRow(r) ==
    [cpg |-> r.cpg, ewas_genes |-> r.ewas_genes,
     uncaptured_gene |-> r.uncaptured_gene, synonym_of |-> r.synonym_of]

\* Unaccounted that keeps the records of tokens with a decimal point
Unaccounted_KeepsDecimals(records) ==
    [k \in 1..Len(records) |-> LedgerRow(records[k])]

Unaccounted(records) ==
    LET kept == SelectSeq(records, LAMBDA r : ~r.is_decimal)
    IN [k \in 1..Len(kept) |-> LedgerRow(kept[k])]

\* the call raises: the truth value of pd.notna(synonyms_raw) is taken
\* outside the try block, so its ValueError leaves the function
analyze_raises(living) ==
    \E k \in 1..Len(living) : "raise" \in NotnaOutcomes(living[k].synonyms)

\* the call can return: no synonyms cell is bound to raise
analyze_returns(living) ==
    \A k \in 1..Len(living) : NotnaOutcomes(living[k].synonyms) # {"raise"}

\* analyze_unmapped_genes(atlas_df, living_df): the returned triple
analyze_unmapped_genes(atlas, living) ==
    LET symbols == existing_symbols(living)
        smap == synonyms_map(living)
        pairs == cpg_genes(atlas)
    IN [cpg_unmapped_strings |->
            BuildUnmappedStrings(pairs, symbols, smap, EmptyDict),
        unaccounted_df |-> Unaccounted(AllRecords(pairs, symbols, smap)),
        appendix_c_df |-> DropDuplicates(AllAppendix(pairs, symbols, smap))]

\* most tokens of a reported-gene string drawn
MaxTokens == 2

T_G1 == <<"G", "1">>
T_G2 == <<"G", "2">>
T_A1 == <<"A", "1">>
T_N1 == <<"N", "1">>
T_D1 == <<"D", ".", "1">>

\* the pieces a reported-gene string is made of: plain and padded tokens,
\* a token with a decimal point, an empty piece
RawTokens == {T_G1, T_A1, <<" ">> \o T_N1 \o <<" ">>, T_D1, <<>>}

\* the genes cells drawn: up to MaxTokens pieces joined by ';', and NaN
GenesStrings ==
    {Join(ts, <<";">>) :
        ts \in UNION {[1..k -> RawTokens] : k \in 1..MaxTokens}} \cup {NaN}

Probes == {"cg1", "cg2"}

\* the first atlas row drawn: every genes cell, for the first probe
AtlasGeneRows == {[cpg |-> "cg1", genes |-> g] : g \in GenesStrings}

\* a second atlas row: a repeated string, another string of the same
\* probe, another probe, a missing string
SecondAtlasRows ==
    { [cpg |-> "cg1", genes |-> T_N1],
      [cpg |-> "cg1", genes |-> T_G1 \o <<";">> \o T_D1],
      [cpg |-> "cg2", genes |-> T_A1 \o <<";">> \o T_D1],
      [cpg |-> "cg1", genes |-> NaN] }

AtlasGeneTables ==
    {<<>>} \cup {<<r>> : r \in AtlasGeneRows}
           \cup {<<r, s>> : r \in AtlasGeneRows, s \in SecondAtlasRows}

\* the symbol cells drawn: a symbol, a symbol with a decimal point, the
\* empty text, and the two missing values
SymbolCells == {T_G1, T_D1, <<>>, NaN, None}

\* the synonyms cells drawn: missing, ';'-delimited, JSON arrays, and a
\* text that starts like a JSON array and is none
SynonymCells ==
    { NaN,
      T_A1,
      T_A1 \o <<";", " ">> \o T_D1,
      <<"[", "\"">> \o T_A1 \o <<"\"", ",", " ", "\"">> \o T_N1 \o <<"\"", "]">>,
      <<"[">> \o T_A1 }

GeneRecords ==
    {[symbol |-> sy, synonyms |-> sn] : sy \in SymbolCells, sn \in SynonymCells}

\* a second gene record: one claiming a synonym again, one whose symbol is
\* another record's synonym, and two without a symbol
SecondGeneRecords ==
    { [symbol |-> T_G2, synonyms |-> T_A1],
      [symbol |-> T_A1, synonyms |-> NaN],
      [symbol |-> <<>>, synonyms |-> <<"[", "\"">> \o T_A1 \o <<"\"", "]">>],
      [symbol |-> NaN, synonyms |-> T_A1] }

GeneTables ==
    {<<>>} \cup {<<r>> : r \in GeneRecords}
           \cup {<<r, s>> : r \in GeneRecords, s \in SecondGeneRecords}

InitGap ==
    /\ pc = "analyze"
    /\ atlas_df \in AtlasGeneTables
    /\ living_df \in GeneTables
    /\ df = <<>>
    /\ expanded_df = <<>>
    /\ cpg_unmapped_strings = <<>>
    /\ unaccounted_df = <<>>
    /\ appendix_c_df = <<>>
    /\ mapping_df = <<>>
    /\ result_df = <<>>
    /\ genes_df = <<>>
    /\ disgenet_df = <<>>
    /\ gene_db = <<>>
    /\ calls = <<>>

\* the two arguments as the call leaves them: both tables are only read
\* (cpg_genes is a new table, the rows are iterated)
analyze_leaves(atlas, living) == [atlas_df |-> atlas, living_df |-> living]

AnalyzeUnmappedGenes ==
    /\ pc = "analyze"
    /\ analyze_returns(living_df)
    /\ LET ret == analyze_unmapped_genes(atlas_df, living_df)
       IN /\ cpg_unmapped_strings' = ret.cpg_unmapped_strings
          /\ unaccounted_df' = ret.unaccounted_df
          /\ appendix_c_df' = ret.appendix_c_df
    /\ atlas_df' = analyze_leaves(atlas_df, living_df).atlas_df
    /\ living_df' = analyze_leaves(atlas_df, living_df).living_df
    /\ pc' = "done"
    /\ UNCHANGED <<df, expanded_df, mapping_df, result_df,
                   genes_df, disgenet_df, gene_db, calls>>

\* the call leaves with the ValueError of the notna test: nothing is returned
AnalyzeUnmappedGenesRaises ==
    /\ pc = "analyze"
    /\ analyze_raises(living_df)
    /\ pc' = "raised"
    /\ UNCHANGED <<df, expanded_df, atlas_df, living_df, cpg_unmapped_strings,
                   unaccounted_df, appendix_c_df, mapping_df, result_df,
                   genes_df, disgenet_df, gene_db, calls>>

NextGap == AnalyzeUnmappedGenes

SpecGap == InitGap /\ [][NextGap]_vars

\* The same call on gene tables drawn for the synonym index: the forms of
\* the synonyms cell, records without symbol, a synonym claimed twice.

\* most items of a synonyms cell that is an actual list
MaxSynonyms == 2

ListCells ==
    {ListCell(items) :
        items \in UNION {[1..k -> {T_A1, T_N1}] : k \in 0..MaxSynonyms}}
    \cup {ListCell(<<NaN>>)}

Txt_JsonA1N1 ==
    <<"[", "\"">> \o T_A1 \o <<"\"", ",", " ", "\"">> \o T_N1 \o <<"\"", "]">>

\* the synonyms cells of the first record: missing, the two text forms, two
\* texts json.loads rejects, a number, and the lists
IndexSynonymCells ==
    { NaN,
      T_A1 \o <<";", " ">> \o T_N1,
      Txt_JsonA1N1,
      <<"[">> \o T_A1,
      <<"[">> \o T_A1 \o <<";">> \o T_N1 \o <<"]">>,
      NumberCell(5) } \cup ListCells

IndexGeneRecords ==
    {[symbol |-> sy, synonyms |-> sn] :
        sy \in {T_G1, <<>>, NaN}, sn \in IndexSynonymCells}

\* the second record: another symbol or none, claiming A1 or N1 in each form
SecondIndexGeneRecords ==
    {[symbol |-> sy, synonyms |-> sn] :
        sy \in {T_G2, <<>>, None},
        sn \in {NaN, T_A1, <<"[", "\"">> \o T_N1 \o <<"\"", "]">>,
                <<"[">> \o T_A1, ListCell(<<T_N1>>)}}

IndexGeneTables ==
    {<<r>> : r \in IndexGeneRecords}
    \cup {<<r, s>> : r \in IndexGeneRecords, s \in SecondIndexGeneRecords}
    \cup {<<s, r>> : r \in {x \in IndexGeneRecords : x.symbol = T_G1},
                     s \in {x \in SecondIndexGeneRecords : x.symbol # T_G2}}

\* the atlas tables of these calls: the two synonyms, a symbol, a decimal
IndexAtlasTables ==
    { <<[cpg |-> "cg1", genes |-> T_A1 \o <<";">> \o T_N1]>>,
      <<[cpg |-> "cg1", genes |-> T_A1],
        [cpg |-> "cg2", genes |-> T_N1 \o <<";">> \o T_G1]>>,
      <<[cpg |-> "cg1", genes |-> T_D1 \o <<";">> \o T_A1]>> }

InitIndex ==
    /\ pc = "analyze"
    /\ atlas_df \in IndexAtlasTables
    /\ living_df \in IndexGeneTables
    /\ df = <<>>
    /\ expanded_df = <<>>
    /\ cpg_unmapped_strings = <<>>
    /\ unaccounted_df = <<>>
    /\ appendix_c_df = <<>>
    /\ mapping_df = <<>>
    /\ result_df = <<>>
    /\ genes_df = <<>>
    /\ disgenet_df = <<>>
    /\ gene_db = <<>>
    /\ calls = <<>>

NextIndex == AnalyzeUnmappedGenes \/ AnalyzeUnmappedGenesRaises

SpecIndex == InitIndex /\ [][NextIndex]_vars

----------------------------------------------------------------------------
(* attach_ewas_atlas_traits *)

\* pandas' missing value of a numeric column; the numbers drawn are naturals
NaNum == 0 - 1

Txt_nan == <<"n", "a", "n">>
Txt_NA == <<"N", "A">>
Txt_NR == <<"N", "R">>
Txt_pos == <<"p", "o", "s">>
Txt_neg == <<"n", "e", "g">>
Txt_hyper == <<"h", "y", "p", "e", "r">>
Txt_hypo == <<"h", "y", "p", "o">>
Txt_zero == <<"0", ".", "0", "0", "0">>

Digit(d) == <<"0", "1", "2", "3", "4", "5", "6", "7", "8", "9">>[d + 1]

\* str(n) of a natural number
RECURSIVE IntToText(_)
IntToText(n) ==
    IF n < 10 THEN <<Digit(n)>> ELSE IntToText(n \div 10) \o <<Digit(n % 10)>>

\* str(x) of a text cell: the text, 'nan' for NaN
StrOfCell(cell) == IF cell = NaN THEN Txt_nan ELSE cell

\* correlation_mapped without the fillna('NR'): an unmapped value stays NaN
\* and is printed as nan
correlation_mapped_NoFillna(correlation) ==
    IF correlation = Txt_pos THEN Txt_hyper
    ELSE IF correlation = Txt_neg THEN Txt_hypo
    ELSE Txt_nan

\* atlas_df['correlation'].map(corr_map).fillna('NR') on one cell
correlation_mapped(correlation) ==
    IF correlation = Txt_pos THEN Txt_hyper
    ELSE IF correlation = Txt_neg THEN Txt_hypo
    ELSE Txt_NR

\* the number of thousandths nearest to num / den, the even one of two
\* equally near: what the format "{:.3f}" prints of float(num) / float(den).
\* (The quotient of two small naturals is never so close to a half
\* thousandth that its binary rounding changes the digit printed, and a
\* quotient that is exactly a half thousandth has a power of two as
\* denominator and is exact in binary.)
Thousandths(num, den) ==
    LET q == (1000 * num) \div den
        r == (1000 * num) % den
    IN IF 2 * r > den THEN q + 1
       ELSE IF 2 * r < den THEN q
       ELSE IF q % 2 = 0 THEN q ELSE q + 1

\* f"{x:.3f}" of a number given in thousandths
FormatThousandths(q) ==
    IntToText(q \div 1000)
      \o <<".", Digit((q \div 100) % 10), Digit((q \div 10) % 10), Digit(q % 10)>>

\* calc_rank_score with the quotient cut after the third decimal
calc_rank_score_Truncate(row) ==
    IF row.rank # NaNum /\ row.total_associations # NaNum
       /\ row.total_associations # 0
    THEN FormatThousandths((1000 * row.rank) \div row.total_associations)
    ELSE Txt_zero

\* calc_rank_score(row)
calc_rank_score(row) ==
    IF row.rank # NaNum /\ row.total_associations # NaNum
       /\ row.total_associations # 0
    THEN FormatThousandths(Thousandths(row.rank, row.total_associations))
    ELSE Txt_zero

\* the dict aggregate_traits appends for one row of the group
TraitEntry(row) ==
    LET trait == Strip(StrOfCell(row.trait))
        score == calc_rank_score(row)
        corr == correlation_mapped(row.correlation)
        pmid == IF row.pmid # NaNum THEN IntToText(row.pmid) ELSE Txt_NA
    IN [trait |-> trait, score |-> score,
        formatted |-> Join(<<trait, score, corr, pmid>>, <<",", " ">>)]

\* (a.score, a.trait) < (b.score, b.trait) on Python tuples of str
KeyLess(a, b) ==
    \/ StrLess(a.score, b.score)
    \/ a.score = b.score /\ StrLess(a.trait, b.trait)

\* x inserted into the descending list srt, after the elements that are
\* not below it
RECURSIVE InsertDescending(_, _)
InsertDescending(srt, x) ==
    IF srt = <<>> THEN <<x>>
    ELSE IF KeyLess(Head(srt), x) THEN <<x>> \o srt
    ELSE <<Head(srt)>> \o InsertDescending(Tail(srt), x)

\* rows.sort(key=lambda x: (x['score'], x['trait']), reverse=[True, False])
\* where list.sort takes the list given as reverse for its truth value:
\* the whole key descending, equal keys in their order of arrival
RECURSIVE SortReversed(_)
SortReversed(rows) ==
    IF rows = <<>> THEN <<>>
    ELSE InsertDescending(SortReversed(Take(rows, Len(rows) - 1)),
                          rows[Len(rows)])

\* aggregate_traits(group): the ewas_atlas_traits text of one group
aggregate_traits(group) ==
    LET rows == SortReversed([k \in 1..Len(group) |-> TraitEntry(group[k])])
    IN Join([k \in 1..Len(rows) |-> rows[k].formatted], <<";", "\n">>)

\* the rows of one group of atlas_df.groupby('cpg'), in table order
GroupOf(atlas, c) == SelectSeq(atlas, LAMBDA r : r.cpg = c)

\* a missing probe id (NaN in a cpg column)
NoProbe == "nan"

\* the keys of the groups: groupby leaves out the rows without key
GroupKeys(atlas) == {atlas[k].cpg : k \in 1..Len(atlas)} \ {NoProbe}

\* a row of the merge when groupby('cpg') has no group: apply then returns
\* an empty table that has the columns of atlas_df and no ewas_atlas_traits,
\* and the left merge adds those columns, all missing
MergedWithoutGroups(row) ==
    [cpg |-> row.cpg, gene |-> row.gene,
     trait |-> NaN, rank |-> NaNum, total_associations |-> NaNum,
     correlation |-> NaN, pmid |-> NaNum,
     correlation_mapped |-> NaN, rank_score |-> NaN]

\* pd.merge(mapping_df, atlas_grouped, on='cpg', how='left')
attach_ewas_atlas_traits(mapping, atlas) ==
    IF GroupKeys(atlas) = {}
    THEN [k \in 1..Len(mapping) |-> MergedWithoutGroups(mapping[k])]
    ELSE [k \in 1..Len(mapping) |->
            [cpg |-> mapping[k].cpg, gene |-> mapping[k].gene,
             ewas_atlas_traits |->
               IF mapping[k].cpg \in GroupKeys(atlas)
               THEN aggregate_traits(GroupOf(atlas, mapping[k].cpg))
               ELSE NaN]]

\* the two arguments as the call leaves them: the two columns are added to
\* atlas_df.copy() and the merge returns a new table
attach_leaves(mapping, atlas) == [mapping_df |-> mapping, atlas_df |-> atlas]

\* largest rank and largest total_associations drawn
MaxRank == 2
MaxTotal == 3

T_A == <<"A">>
T_B == <<"B">>

Ranks == (0..MaxRank) \cup {NaNum}
Totals == (0..MaxTotal) \cup {NaNum}

AtlasTraitRow(c, t, r, n, corr, p) ==
    [cpg |-> c, trait |-> t, rank |-> r, total_associations |-> n,
     correlation |-> corr, pmid |-> p]

\* the first atlas row drawn
AtlasTraitRows ==
    {AtlasTraitRow(c, t, r, n, x.correlation, x.pmid) :
        c \in Probes, t \in {T_A, T_B}, r \in Ranks, n \in Totals,
        x \in {[correlation |-> Txt_pos, pmid |-> 123],
               [correlation |-> NaN, pmid |-> NaNum]}}

\* a second atlas row: every trait and score, of either probe
SecondTraitRows ==
    {AtlasTraitRow(c, t, r, n, Txt_neg, 456) :
        c \in Probes, t \in {T_A, T_B}, r \in Ranks, n \in Totals}

\* a third atlas row of the first probe: an unranked record, a record
\* ranked zero, a padded trait name, a correlation that is neither pos nor
\* neg
ThirdTraitRows ==
    { AtlasTraitRow("cg1", T_A, NaNum, 3, Txt_pos, 789),
      AtlasTraitRow("cg1", <<" ">> \o T_B, 0, 3, Txt_NA, 789) }

AtlasTraitTables ==
    {<<r>> : r \in AtlasTraitRows}
      \cup {<<r, s>> : r \in AtlasTraitRows, s \in SecondTraitRows}
      \cup {<<r, s, t>> : r \in AtlasTraitRows, s \in SecondTraitRows,
                          t \in ThirdTraitRows}

T_NTM == <<"N", "T", "M">>

\* the mapping tables drawn: a probe without atlas record, a probe twice
TraitMappingTables ==
    { << [cpg |-> "cg1", gene |-> T_NTM],
         [cpg |-> "cg2", gene |-> Txt_unmapped],
         [cpg |-> "cg9", gene |-> T_G1] >>,
      << [cpg |-> "cg2", gene |-> T_G1],
         [cpg |-> "cg1", gene |-> T_NTM],
         [cpg |-> "cg1", gene |-> T_G2] >> }

InitTraits ==
    /\ pc = "attach"
    /\ atlas_df \in AtlasTraitTables
    /\ mapping_df \in TraitMappingTables
    /\ df = <<>>
    /\ expanded_df = <<>>
    /\ living_df = <<>>
    /\ cpg_unmapped_strings = <<>>
    /\ unaccounted_df = <<>>
    /\ appendix_c_df = <<>>
    /\ result_df = <<>>
    /\ genes_df = <<>>
    /\ disgenet_df = <<>>
    /\ gene_db = <<>>
    /\ calls = <<>>

\* the call on an interpreter whose list.sort takes any object as reverse
\* (CPython 3.12 and later)
AttachEwasAtlasTraits ==
    /\ pc = "attach"
    /\ result_df' = attach_ewas_atlas_traits(mapping_df, atlas_df)
    /\ mapping_df' = attach_leaves(mapping_df, atlas_df).mapping_df
    /\ atlas_df' = attach_leaves(mapping_df, atlas_df).atlas_df
    /\ pc' = "done"
    /\ UNCHANGED <<df, expanded_df, living_df, cpg_unmapped_strings,
                   unaccounted_df, appendix_c_df,
                   genes_df, disgenet_df, gene_db, calls>>

\* the call on an interpreter whose list.sort takes an integer as reverse
\* (CPython up to 3.11): the sort of the first group raises TypeError
AttachEwasAtlasTraitsRaises ==
    /\ pc = "attach"
    /\ GroupKeys(atlas_df) # {}
    /\ pc' = "raised"
    /\ UNCHANGED <<df, expanded_df, atlas_df, living_df, cpg_unmapped_strings,
                   unaccounted_df, appendix_c_df, mapping_df, result_df,
                   genes_df, disgenet_df, gene_db, calls>>

NextTraits == AttachEwasAtlasTraits \/ AttachEwasAtlasTraitsRaises

SpecTraits == InitTraits /\ [][NextTraits]_vars

\* The same call on tables drawn for the merge: atlas records without probe
\* id or of a probe that no mapping row has, mapping rows that share a
\* probe id or have none.
MergeAtlasRows ==
    {AtlasTraitRow(c, t, r, 2, Txt_pos, 123) :
        c \in {"cg1", "cg7", NoProbe}, t \in {T_A, T_B}, r \in {1, NaNum}}

MergeAtlasTables ==
    {<<r>> : r \in MergeAtlasRows}
      \cup {<<r, s>> : r \in MergeAtlasRows, s \in MergeAtlasRows}

MergeMappingTables ==
    TraitMappingTables
    \cup { << [cpg |-> "cg1", gene |-> T_G1],
              [cpg |-> NoProbe, gene |-> T_G2],
              [cpg |-> "cg1", gene |-> T_G1] >> }

InitMerge ==
    /\ pc = "attach"
    /\ atlas_df \in MergeAtlasTables
    /\ mapping_df \in MergeMappingTables
    /\ df = <<>>
    /\ expanded_df = <<>>
    /\ living_df = <<>>
    /\ cpg_unmapped_strings = <<>>
    /\ unaccounted_df = <<>>
    /\ appendix_c_df = <<>>
    /\ result_df = <<>>
    /\ genes_df = <<>>
    /\ disgenet_df = <<>>
    /\ gene_db = <<>>
    /\ calls = <<>>

NextMerge == NextTraits

SpecMerge == InitMerge /\ [][NextMerge]_vars

----------------------------------------------------------------------------
(* annotate_with_disgenet *)

\* A table is a record of its column names and its rows; a row is a record
\* with one field per column.

Txt_error == <<"e", "r", "r", "o", "r">>
Txt_Positive == <<"P", "o", "s", "i", "t", "i", "v", "e">>
Txt_Negative == <<"N", "e", "g", "a", "t", "i", "v", "e">>
Txt_NAPolarity == <<"N", "A", "P", "o", "l", "a", "r", "i", "t", "y">>
Txt_PMID == <<"P", "M", "I", "D">>

target_class ==
    <<"M", "e", "n", "t", "a", "l", " ", "o", "r", " ", "B", "e", "h", "a",
      "v", "i", "o", "r", "a", "l", " ", "D", "y", "s", "f", "u", "n", "c",
      "t", "i", "o", "n", " ", "(", "T", "0", "4", "8", ")">>

\* a cell of the reference column: a number, a text or a missing value
NumCell(n) == [kind |-> "num", val |-> n]
StrCell(t) == [kind |-> "str", val |-> t]
NaCell == [kind |-> "nan", val |-> 0]

\* str(x) of a float that is a whole number of tenths: 0.5, 1.0, nan
FloatText(s) ==
    IF s = NaNum THEN Txt_nan
    ELSE IntToText(s \div 10) \o <<".", Digit(s % 10)>>

\* the column names the mode writes: f"disgenet{col_suffix}_diseases",
\* f"disgenet{col_suffix}_evidence"
disease_col_name_NoSuffix(psych_only) == "disgenet_diseases"

disease_col_name(psych_only) ==
    IF psych_only THEN "disgenet_psych_diseases" ELSE "disgenet_diseases"

evidence_col_name(psych_only) ==
    IF psych_only THEN "disgenet_psych_evidence" ELSE "disgenet_evidence"

\* df_gea_subset without the restriction to the target class
df_gea_subset_NoFilter(gea, psych_only) == gea.rows

\* df_gea_subset: the rows whose class, as text and stripped, is the target
\* class; every row in broad mode or when the class column is missing
df_gea_subset(gea, psych_only) ==
    IF psych_only /\ "diseaseClasses_UMLS_ST" \in gea.columns
    THEN SelectSeq(gea.rows,
                   LAMBDA r : Strip(StrOfCell(r.diseaseClasses_UMLS_ST))
                                = target_class)
    ELSE gea.rows

\* df_gea_subset[df_gea_subset['gene_symbol'] == gene_symbol]: a missing
\* value equals nothing
gene_data(subset, gene_symbol) ==
    SelectSeq(subset, LAMBDA r : /\ ~IsNa(gene_symbol)
                                 /\ ~IsNa(r.gene_symbol)
                                 /\ r.gene_symbol = gene_symbol)

\* Series.unique(): the distinct values in order of first appearance, the
\* missing value being one value
RECURSIVE Unique(_)
Unique(values) ==
    IF values = <<>> THEN <<>>
    ELSE LET rest == Unique(Take(values, Len(values) - 1))
             last == values[Len(values)]
         IN IF \E k \in 1..Len(rest) : rest[k] = last THEN rest
            ELSE Append(rest, last)

\* gene_data['disease_name'].unique()
unique_diseases(gdata) ==
    Unique([k \in 1..Len(gdata) |-> gdata[k].disease_name])

\* gene_data[gene_data['disease_name'] == disease]
d_rows(gdata, disease) ==
    SelectSeq(gdata, LAMBDA r : /\ ~IsNa(disease)
                                /\ ~IsNa(r.disease_name)
                                /\ r.disease_name = disease)

\* Series.max(): the largest value that is not missing
SeriesMax(values) ==
    LET present == {values[k] : k \in 1..Len(values)} \ {NaNum}
    IN CHOOSE x \in present : \A y \in present : y <= x

\* the dict appended to valid_diseases with the first score as sort key
\* also when the scores differ
DiseaseEntry_FirstScore(gdata, disease) ==
    LET rows == d_rows(gdata, disease)
        scores == Unique([k \in 1..Len(rows) |-> rows[k].score])
    IN IF Len(scores) > 1
       THEN [raised |-> FALSE, name |-> disease, score_val |-> scores[1],
             display |-> disease \o <<",", " ">> \o Txt_error]
       ELSE IF scores = <<>>
       THEN [raised |-> TRUE, name |-> disease, score_val |-> NaNum,
             display |-> <<>>]
       ELSE [raised |-> FALSE, name |-> disease, score_val |-> scores[1],
             display |-> disease \o <<",", " ">> \o FloatText(scores[1])]

\* the dict appended to valid_diseases for one disease; scores[0] raises
\* IndexError when no row carries the disease (a missing disease name)
DiseaseEntry(gdata, disease) ==
    LET rows == d_rows(gdata, disease)
        scores == Unique([k \in 1..Len(rows) |-> rows[k].score])
    IN IF Len(scores) > 1
       THEN [raised |-> FALSE, name |-> disease,
             score_val |-> SeriesMax(scores),
             display |-> disease \o <<",", " ">> \o Txt_error]
       ELSE IF scores = <<>>
       THEN [raised |-> TRUE, name |-> disease, score_val |-> NaNum,
             display |-> <<>>]
       ELSE [raised |-> FALSE, name |-> disease, score_val |-> scores[1],
             display |-> disease \o <<",", " ">> \o FloatText(scores[1])]

\* a < b on floats: false when either is nan
FloatLess(a, b) == a # NaNum /\ b # NaNum /\ a < b

Reverse(s) == [k \in 1..Len(s) |-> s[Len(s) + 1 - k]]

\* list.sort's count_run: the length of the run that starts the list, and
\* whether it is strictly descending
RECURSIVE RunEnd(_, _, _)
RunEnd(a, i, descending) ==
    IF i > Len(a) THEN Len(a)
    ELSE IF FloatLess(a[i].score_val, a[i - 1].score_val) = descending
    THEN RunEnd(a, i + 1, descending)
    ELSE i - 1

count_run(a) ==
    IF Len(a) < 2 THEN [n |-> Len(a), descending |-> FALSE]
    ELSE LET descending == FloatLess(a[2].score_val, a[1].score_val)
         IN [n |-> RunEnd(a, 3, descending), descending |-> descending]

\* list.sort's binarysort: where the pivot goes among the first r elements
RECURSIVE InsertionPoint(_, _, _, _)
InsertionPoint(a, pivot, l, r) ==
    IF l >= r THEN l
    ELSE LET p == l + ((r - l) \div 2)
         IN IF FloatLess(pivot.score_val, a[p + 1].score_val)
            THEN InsertionPoint(a, pivot, l, p)
            ELSE InsertionPoint(a, pivot, p + 1, r)

\* list.sort's binarysort: the first start elements are in order already
RECURSIVE binarysort(_, _)
binarysort(a, start) ==
    IF start >= Len(a) THEN a
    ELSE LET pivot == a[start + 1]
             l == InsertionPoint(a, pivot, 0, start)
         IN binarysort(Take(a, l) \o <<pivot>> \o SubSeq(a, l + 1, start)
                         \o Drop(a, start + 1),
                       start + 1)

\* valid_diseases.sort(key=lambda x: x['score_val'], reverse=True) of a list
\* shorter than 64: the list is reversed, its first run completed by binary
\* insertion, and reversed again
SortByScoreVal(list) ==
    LET a == Reverse(list)
        run == count_run(a)
        b == IF run.descending THEN Reverse(Take(a, run.n)) \o Drop(a, run.n)
             ELSE a
    IN Reverse(binarysort(b, run.n))

\* valid_diseases of one gene, sorted
valid_diseases(gdata) ==
    LET names == unique_diseases(gdata)
    IN SortByScoreVal([k \in 1..Len(names) |-> DiseaseEntry(gdata, names[k])])

\* polarity_order.get(polarity, 3) without the fillna('NAPolarity'): a
\* missing polarity is no key of polarity_order
pol_rank_NoFillna(polarity) ==
    IF IsNa(polarity) THEN 3
    ELSE IF polarity = Txt_Positive THEN 0
    ELSE IF polarity = Txt_NAPolarity THEN 1
    ELSE IF polarity = Txt_Negative THEN 2
    ELSE 3

\* polarity_order.get(polarity_filled, 3)
pol_rank(polarity) ==
    LET polarity_filled == IF IsNa(polarity) THEN Txt_NAPolarity ELSE polarity
    IN IF polarity_filled = Txt_Positive THEN 0
       ELSE IF polarity_filled = Txt_NAPolarity THEN 1
       ELSE IF polarity_filled = Txt_Negative THEN 2
       ELSE 3

\* d_rows['pmYear'].fillna(9999)
pmYear_filled(pmYear) == IF pmYear = NaNum THEN 9999 ELSE pmYear

\* a row sorts before another by (pol_rank, pmYear_filled)
EvidenceLess(a, b) ==
    \/ pol_rank(a.polarity) < pol_rank(b.polarity)
    \/ /\ pol_rank(a.polarity) = pol_rank(b.polarity)
       /\ pmYear_filled(a.pmYear) < pmYear_filled(b.pmYear)

\* x inserted into the ascending rows srt, after the rows not above it
RECURSIVE InsertEvidence(_, _)
InsertEvidence(srt, x) ==
    IF srt = <<>> THEN <<x>>
    ELSE IF EvidenceLess(x, Head(srt)) THEN <<x>> \o srt
    ELSE <<Head(srt)>> \o InsertEvidence(Tail(srt), x)

\* d_rows.sort_values(by=['pol_rank', 'pmYear_filled'],
\* ascending=[True, True]): rows with equal keys keep their order
RECURSIVE sort_values(_)
sort_values(rows) ==
    IF rows = <<>> THEN <<>>
    ELSE InsertEvidence(sort_values(Take(rows, Len(rows) - 1)),
                        rows[Len(rows)])

\* the reference column holds floats: numbers and at least one missing
\* value, no text
IsFloatColumn(gea) ==
    /\ \A k \in 1..Len(gea.rows) : gea.rows[k].reference.kind # "str"
    /\ \E k \in 1..Len(gea.rows) : gea.rows[k].reference.kind = "nan"

\* str(ref_val)
StrOfRef(ref_val, gea) ==
    IF ref_val.kind = "nan" THEN Txt_nan
    ELSE IF ref_val.kind = "str" THEN ref_val.val
    ELSE IF IsFloatColumn(gea) THEN IntToText(ref_val.val) \o <<".", "0">>
    ELSE IntToText(ref_val.val)

\* int(text) succeeds: digits with whitespace around them
IsIntLiteral(text) ==
    /\ Strip(text) # <<>>
    /\ \A j \in 1..Len(Strip(text)) :
          Strip(text)[j] \in {"0", "1", "2", "3", "4", "5", "6", "7", "8", "9"}

\* int(text) of digits
RECURSIVE IntOfText(_)
IntOfText(t) ==
    IF t = <<>> THEN 0
    ELSE 10 * IntOfText(Take(t, Len(t) - 1))
           + (CHOOSE d \in 0..9 : Digit(d) = t[Len(t)])

\* ref_str with str(ref_val) also for a PMID
ref_str_NoInt(row, gea) ==
    IF StrOfCell(row.reference_type) = Txt_PMID
    THEN StrOfRef(row.reference, gea)
    ELSE (IF row.reference.kind # "nan" THEN StrOfRef(row.reference, gea)
          ELSE Txt_NA)
           \o <<" ", "(">> \o StrOfCell(row.source) \o <<",", " ">>
           \o StrOfCell(row.associationType) \o <<")">>

\* ref_str: str(int(ref_val)) for a PMID, str(ref_val) when int() raises
\* ValueError or TypeError; "{value or NA} ({source}, {associationType})"
\* otherwise
ref_str(row, gea) ==
    IF StrOfCell(row.reference_type) = Txt_PMID
    THEN IF row.reference.kind = "num" THEN IntToText(row.reference.val)
         ELSE IF row.reference.kind = "str" /\ IsIntLiteral(row.reference.val)
         THEN IntToText(IntOfText(Strip(row.reference.val)))
         ELSE StrOfRef(row.reference, gea)
    ELSE (IF row.reference.kind # "nan" THEN StrOfRef(row.reference, gea)
          ELSE Txt_NA)
           \o <<" ", "(">> \o StrOfCell(row.source) \o <<",", " ">>
           \o StrOfCell(row.associationType) \o <<")">>

\* the evidence line of one row
evidence_line(disease_name, row_ev, gea) ==
    LET pol == IF ~IsNa(row_ev.polarity) THEN row_ev.polarity
               ELSE Txt_NAPolarity
        year_str == IF row_ev.pmYear # NaNum THEN IntToText(row_ev.pmYear)
                    ELSE Txt_NA
    IN Join(<<disease_name, pol, year_str, ref_str(row_ev, gea)>>,
            <<",", " ">>)

\* evidence_lines with one block per disease of unique_diseases, in the
\* order of the table
evidence_lines_TableOrder(gdata, gea) ==
    LET names == unique_diseases(gdata)
    IN Flatten([k \in 1..Len(names) |->
                  LET sorted == sort_values(d_rows(gdata, names[k]))
                  IN [j \in 1..Len(sorted) |->
                        evidence_line(names[k], sorted[j], gea)]])

\* evidence_lines of one gene: one block per disease of valid_diseases
evidence_lines(gdata, gea) ==
    LET valid == valid_diseases(gdata)
    IN Flatten([k \in 1..Len(valid) |->
                  LET sorted == sort_values(d_rows(gdata, valid[k].name))
                  IN [j \in 1..Len(sorted) |->
                        evidence_line(valid[k].name, sorted[j], gea)]])

\* the two cells appended for one gene row, with the empty text where no
\* row of the subset names the gene
GeneCells_EmptyText(gene_symbol, subset, gea) ==
    LET gdata == gene_data(subset, gene_symbol)
        valid == valid_diseases(gdata)
    IN IF gdata = <<>>
       THEN [raised |-> FALSE, diseases |-> <<>>, evidence |-> <<>>]
       ELSE [raised |-> \E k \in 1..Len(valid) : valid[k].raised,
             diseases |-> Join([k \in 1..Len(valid) |-> valid[k].display],
                               <<";", "\n">>),
             evidence |-> Join(evidence_lines(gdata, gea), <<";", "\n">>)]

\* the two cells appended for one gene row: NaN twice when no row of the
\* subset names the gene
GeneCells(gene_symbol, subset, gea) ==
    LET gdata == gene_data(subset, gene_symbol)
        valid == valid_diseases(gdata)
    IN IF gdata = <<>>
       THEN [raised |-> FALSE, diseases |-> NaN, evidence |-> NaN]
       ELSE [raised |-> \E k \in 1..Len(valid) : valid[k].raised,
             diseases |-> Join([k \in 1..Len(valid) |-> valid[k].display],
                               <<";", "\n">>),
             evidence |-> Join(evidence_lines(gdata, gea), <<";", "\n">>)]

\* the call raises: some gene row meets a disease without rows
annotate_raises(genes, gea, psych_only) ==
    LET subset == df_gea_subset(gea, psych_only)
    IN \E k \in 1..Len(genes.rows) :
          GeneCells(genes.rows[k].symbol, subset, gea).raised

\* df_genes[name] = cell on one row: the column is added or overwritten
SetColumn(row, name, cell) ==
    [c \in (DOMAIN row) \cup {name} |-> IF c = name THEN cell ELSE row[c]]

\* annotate_with_disgenet(genes_df, disgenet_df, psych_only), when it returns
annotate_with_disgenet(genes, gea, psych_only) ==
    LET subset == df_gea_subset(gea, psych_only)
    IN [columns |-> genes.columns \cup {disease_col_name(psych_only),
                                        evidence_col_name(psych_only)},
        rows |-> [k \in 1..Len(genes.rows) |->
                    LET cells == GeneCells(genes.rows[k].symbol, subset, gea)
                    IN SetColumn(SetColumn(genes.rows[k],
                                           disease_col_name(psych_only),
                                           cells.diseases),
                                 evidence_col_name(psych_only),
                                 cells.evidence)]]

\* largest score drawn, in tenths
MaxScore == 2

D1 == <<"D", "1">>
D2 == <<"D", "2">>
D3 == <<"D", "3">>
T_S1 == <<"S", "1">>
T_T1 == <<"T", "1">>
T_abc == <<"a", "b", "c">>
T_Other == <<"O", "t", "h", "e", "r">>
T_Class1 == <<"C", "l", "a", "s", "s", " ", "1">>

Scores == 0..MaxScore

GeaColumns ==
    {"gene_symbol", "disease_name", "diseaseClasses_UMLS_ST", "score",
     "polarity", "pmYear", "reference_type", "reference", "source",
     "associationType"}

GeaRow(g, d, c, s, e) ==
    [gene_symbol |-> g, disease_name |-> d, diseaseClasses_UMLS_ST |-> c,
     score |-> s, polarity |-> e.polarity, pmYear |-> e.pmYear,
     reference_type |-> e.reference_type, reference |-> e.reference,
     source |-> T_S1, associationType |-> T_T1]

Evidence(p, y, t, r) ==
    [polarity |-> p, pmYear |-> y, reference_type |-> t, reference |-> r]

\* the polarity, year and reference of the first row drawn
FirstEvidence ==
    { Evidence(Txt_Positive, 2020, Txt_PMID, NumCell(123)),
      Evidence(Txt_Negative, 2021, Txt_PMID, StrCell(T_abc)),
      Evidence(NaN, NaNum, T_Other, NaCell),
      Evidence(T_abc, 2020, T_Other, NumCell(123)),
      Evidence(NaN, 2021, Txt_PMID, NaCell),
      Evidence(Txt_Negative, NaNum, NaN, StrCell(<<" ", "0", "7">>)),
      Evidence(Txt_Positive, 2021, Txt_PMID, StrCell(<<" ", "0", "7">>)) }

\* the first row: of the first gene and of the target class
FirstGeaRows ==
    {GeaRow(T_G1, d, target_class, s, e) :
        d \in {D1, D2, NaN}, s \in Scores \cup {NaNum}, e \in FirstEvidence}

\* the gene, disease and class of the second row drawn
SecondLoci ==
    { [g |-> T_G1, d |-> D1, c |-> target_class],
      [g |-> T_G1, d |-> D2, c |-> target_class],
      [g |-> T_G1, d |-> D2, c |-> T_Class1],
      [g |-> T_G1, d |-> D1, c |-> <<" ">> \o target_class \o <<" ">>],
      [g |-> T_G2, d |-> D1, c |-> NaN],
      [g |-> T_G2, d |-> D2, c |-> target_class] }

SecondGeaRows ==
    {GeaRow(l.g, l.d, l.c, s, e) :
        l \in SecondLoci, s \in {1, MaxScore},
        e \in {Evidence(Txt_Positive, 2021, Txt_PMID, NumCell(456)),
               Evidence(NaN, 2020, Txt_PMID, NumCell(456))}}

\* a third row: a further record of the first disease, a third disease, a
\* record of another class
ThirdGeaRows ==
    { GeaRow(T_G1, D1, target_class, MaxScore,
             Evidence(Txt_Negative, 2019, Txt_PMID, NumCell(789))),
      GeaRow(T_G1, D3, target_class, 1,
             Evidence(Txt_Positive, NaNum, T_Other, StrCell(T_abc))),
      GeaRow(T_G1, D1, T_Class1, 1,
             Evidence(Txt_Positive, 2019, Txt_PMID, NumCell(789))) }

\* a row of a table without the class column
WithoutClass(r) ==
    [c \in (DOMAIN r) \ {"diseaseClasses_UMLS_ST"} |-> r[c]]

\* the DisGeNET tables drawn: one to three rows, and the one-row tables
\* without the class column
DisgenetTables ==
    {[columns |-> GeaColumns, rows |-> <<r>>] : r \in FirstGeaRows}
      \cup {[columns |-> GeaColumns, rows |-> <<r, s>>] :
               r \in FirstGeaRows, s \in SecondGeaRows}
      \cup {[columns |-> GeaColumns, rows |-> <<r, s, t>>] :
               r \in FirstGeaRows, s \in SecondGeaRows, t \in ThirdGeaRows}
      \cup {[columns |-> GeaColumns \ {"diseaseClasses_UMLS_ST"},
             rows |-> <<WithoutClass(r)>>] : r \in FirstGeaRows}

\* the gene table drawn: the genes of the evidence, a gene without symbol
\* and a gene without evidence rows
GenesTables ==
    { [columns |-> {"symbol", "hgnc_id"},
       rows |-> << [symbol |-> T_G2, hgnc_id |-> 2],
                   [symbol |-> NaN, hgnc_id |-> 4],
                   [symbol |-> T_G1, hgnc_id |-> 1],
                   [symbol |-> T_A1, hgnc_id |-> 3] >>] }

InitDisgenet ==
    /\ pc = "annotate"
    /\ genes_df \in GenesTables
    /\ disgenet_df \in DisgenetTables
    /\ gene_db = genes_df
    /\ calls = <<>>
    /\ df = <<>>
    /\ expanded_df = <<>>
    /\ atlas_df = <<>>
    /\ living_df = <<>>
    /\ cpg_unmapped_strings = <<>>
    /\ unaccounted_df = <<>>
    /\ appendix_c_df = <<>>
    /\ mapping_df = <<>>
    /\ result_df = <<>>

\* the two arguments as a call leaves them: the columns are assigned to
\* df_genes = genes_df.copy() and the evidence is read from copies
annotate_leaves(genes, gea) == [genes_df |-> genes, disgenet_df |-> gea]

\* gene_db = annotate_with_disgenet(gene_db, disgenet_df, psych_only=False)
AnnotateBroad ==
    /\ pc \in {"annotate", "psych"}
    /\ ~annotate_raises(gene_db, disgenet_df, FALSE)
    /\ gene_db' = annotate_with_disgenet(gene_db, disgenet_df, FALSE)
    /\ genes_df' = IF pc = "annotate"
                   THEN annotate_leaves(gene_db, disgenet_df).genes_df
                   ELSE genes_df
    /\ disgenet_df' = annotate_leaves(gene_db, disgenet_df).disgenet_df
    /\ pc' = IF pc = "annotate" THEN "broad" ELSE "done"
    /\ UNCHANGED <<df, expanded_df, atlas_df, living_df, cpg_unmapped_strings,
                   unaccounted_df, appendix_c_df, mapping_df, result_df, calls>>

\* gene_db = annotate_with_disgenet(gene_db, disgenet_df, psych_only=True)
AnnotatePsych ==
    /\ pc \in {"annotate", "broad"}
    /\ ~annotate_raises(gene_db, disgenet_df, TRUE)
    /\ gene_db' = annotate_with_disgenet(gene_db, disgenet_df, TRUE)
    /\ genes_df' = IF pc = "annotate"
                   THEN annotate_leaves(gene_db, disgenet_df).genes_df
                   ELSE genes_df
    /\ disgenet_df' = annotate_leaves(gene_db, disgenet_df).disgenet_df
    /\ pc' = IF pc = "annotate" THEN "psych" ELSE "done"
    /\ UNCHANGED <<df, expanded_df, atlas_df, living_df, cpg_unmapped_strings,
                   unaccounted_df, appendix_c_df, mapping_df, result_df, calls>>

\* either call raising IndexError: no table is returned
AnnotateRaises ==
    /\ \/ pc \in {"annotate", "psych"}
          /\ annotate_raises(gene_db, disgenet_df, FALSE)
       \/ pc \in {"annotate", "broad"}
          /\ annotate_raises(gene_db, disgenet_df, TRUE)
    /\ pc' = "raised"
    /\ UNCHANGED <<df, expanded_df, atlas_df, living_df, cpg_unmapped_strings,
                   unaccounted_df, appendix_c_df, mapping_df, result_df,
                   genes_df, disgenet_df, gene_db, calls>>

NextDisgenet == AnnotateBroad \/ AnnotatePsych \/ AnnotateRaises

SpecDisgenet == InitDisgenet /\ [][NextDisgenet]_vars

\* The two aggregations on tables of at most two rows: the arguments of
\* one call of attach_ewas_atlas_traits, or those of the two calls of
\* annotate_with_disgenet.
InitAggregates ==
    \/ /\ InitTraits
       /\ Len(atlas_df) <= 2
    \/ /\ InitDisgenet
       /\ Len(disgenet_df.rows) <= 2

NextAggregates == NextTraits \/ NextDisgenet

SpecAggregates == InitAggregates /\ [][NextAggregates]_vars

\* The four functions, each called once on arguments of its own: what a
\* call leaves in the tables it was given.
PurityMappingTables ==
    LET first == {MappingRow(l, g) :
                     l \in Loci,
                     g \in {NaN, <<>>, <<"A", ",", "B">>, <<" ", "A">>}}
    IN {<<r>> : r \in first} \cup {<<r, s>> : r \in first, s \in SecondRows}

PurityDisgenetTables ==
    {[columns |-> GeaColumns, rows |-> <<r>>] : r \in FirstGeaRows}

InitPurity ==
    \/ InitIndex
    \/ InitMerge
    \/ /\ pc = "expand"
       /\ df \in PurityMappingTables
       /\ expanded_df = <<>>
       /\ atlas_df = <<>>
       /\ living_df = <<>>
       /\ cpg_unmapped_strings = <<>>
       /\ unaccounted_df = <<>>
       /\ appendix_c_df = <<>>
       /\ mapping_df = <<>>
       /\ result_df = <<>>
       /\ genes_df = <<>>
       /\ disgenet_df = <<>>
       /\ gene_db = <<>>
       /\ calls = <<>>
    \/ /\ pc = "annotate"
       /\ genes_df \in GenesTables
       /\ disgenet_df \in PurityDisgenetTables
       /\ gene_db = genes_df
       /\ df = <<>>
       /\ expanded_df = <<>>
       /\ atlas_df = <<>>
       /\ living_df = <<>>
       /\ cpg_unmapped_strings = <<>>
       /\ unaccounted_df = <<>>
       /\ appendix_c_df = <<>>
       /\ mapping_df = <<>>
       /\ result_df = <<>>
       /\ calls = <<>>

NextPurity == NextExpand \/ NextIndex \/ NextTraits \/ NextDisgenet

SpecPurity == InitPurity /\ [][NextPurity]_vars

\* One process that invokes analyze_unmapped_genes, attach_ewas_atlas_traits
\* and annotate_with_disgenet several times, in any order, each time on
\* arguments of the caller's choice; every invocation is logged in calls.
\* The functions keep nothing between invocations: there is no module-level
\* variable and every index is a local of the call.

\* most invocations of one process
MaxCalls == 3

SessionGeneTables ==
    { <<[symbol |-> T_G1, synonyms |-> T_A1]>>,
      <<[symbol |-> T_G2, synonyms |-> NaN]>>,
      <<[symbol |-> T_A1, synonyms |-> T_N1]>> }

SessionAtlasGeneTables ==
    { <<[cpg |-> "cg1", genes |-> T_A1 \o <<";">> \o T_N1]>>,
      <<[cpg |-> "cg1", genes |-> T_G1 \o <<";">> \o T_A1]>> }

SessionMappingTables ==
    { << [cpg |-> "cg1", gene |-> T_NTM], [cpg |-> "cg9", gene |-> T_G1] >> }

SessionAtlasTraitTables ==
    { <<AtlasTraitRow("cg1", T_A, 1, 2, Txt_pos, 123)>>,
      <<AtlasTraitRow("cg1", T_A, 1, 2, Txt_pos, 123),
        AtlasTraitRow("cg1", T_B, NaNum, 2, Txt_neg, 456)>>,
      <<AtlasTraitRow(NoProbe, T_A, 1, 2, Txt_pos, 123)>> }

SessionDisgenetTables ==
    {[columns |-> GeaColumns, rows |-> <<r>>] :
        r \in {GeaRow(T_G1, D1, target_class, 1,
                      Evidence(Txt_Positive, 2020, Txt_PMID, NumCell(123))),
               GeaRow(T_G1, D2, T_Class1, 0,
                      Evidence(NaN, NaNum, T_Other, NaCell))}}

InitSession ==
    /\ pc = "idle"
    /\ calls = <<>>
    /\ df = <<>>
    /\ expanded_df = <<>>
    /\ atlas_df = <<>>
    /\ living_df = <<>>
    /\ cpg_unmapped_strings = <<>>
    /\ unaccounted_df = <<>>
    /\ appendix_c_df = <<>>
    /\ mapping_df = <<>>
    /\ result_df = <<>>
    /\ genes_df = <<>>
    /\ disgenet_df = <<>>
    /\ gene_db = <<>>

\* the interpreter of the process is one and the same for all its calls:
\* list.sort either takes the list given as reverse (CPython 3.12 and
\* later) or raises TypeError (up to 3.11), as the earlier sorts show
SortHasRaised ==
    \E i \in 1..Len(calls) :
        calls[i].fn = "attach_ewas_atlas_traits" /\ calls[i].raised

SortHasReturned ==
    \E i \in 1..Len(calls) :
        /\ calls[i].fn = "attach_ewas_atlas_traits"
        /\ ~calls[i].raised
        /\ GroupKeys(calls[i].args.atlas_df) # {}

InvokeAnalyze ==
    /\ Len(calls) < MaxCalls
    /\ \E a \in SessionAtlasGeneTables, l \in SessionGeneTables :
          /\ analyze_returns(l)
          /\ LET ret == analyze_unmapped_genes(a, l)
             IN /\ cpg_unmapped_strings' = ret.cpg_unmapped_strings
                /\ unaccounted_df' = ret.unaccounted_df
                /\ appendix_c_df' = ret.appendix_c_df
                /\ calls' = Append(calls,
                                   [fn |-> "analyze_unmapped_genes",
                                    args |-> [atlas_df |-> a, living_df |-> l],
                                    raised |-> FALSE, out |-> ret])
          /\ atlas_df' = analyze_leaves(a, l).atlas_df
          /\ living_df' = analyze_leaves(a, l).living_df
    /\ pc' = "done"
    /\ UNCHANGED <<df, expanded_df, mapping_df, result_df,
                   genes_df, disgenet_df, gene_db>>

InvokeAttach ==
    /\ Len(calls) < MaxCalls
    /\ \E m \in SessionMappingTables, a \in SessionAtlasTraitTables :
          /\ GroupKeys(a) # {} => ~SortHasRaised
          /\ result_df' = attach_ewas_atlas_traits(m, a)
          /\ mapping_df' = attach_leaves(m, a).mapping_df
          /\ atlas_df' = attach_leaves(m, a).atlas_df
          /\ calls' = Append(calls,
                             [fn |-> "attach_ewas_atlas_traits",
                              args |-> [mapping_df |-> m, atlas_df |-> a],
                              raised |-> FALSE,
                              out |-> attach_ewas_atlas_traits(m, a)])
    /\ pc' = "done"
    /\ UNCHANGED <<df, expanded_df, living_df, cpg_unmapped_strings,
                   unaccounted_df, appendix_c_df,
                   genes_df, disgenet_df, gene_db>>

InvokeAttachRaises ==
    /\ Len(calls) < MaxCalls
    /\ ~SortHasReturned
    /\ \E m \in SessionMappingTables, a \in SessionAtlasTraitTables :
          /\ GroupKeys(a) # {}
          /\ mapping_df' = m
          /\ atlas_df' = a
          /\ calls' = Append(calls,
                             [fn |-> "attach_ewas_atlas_traits",
                              args |-> [mapping_df |-> m, atlas_df |-> a],
                              raised |-> TRUE, out |-> <<>>])
    /\ pc' = "raised"
    /\ UNCHANGED <<df, expanded_df, living_df, cpg_unmapped_strings,
                   unaccounted_df, appendix_c_df, result_df,
                   genes_df, disgenet_df, gene_db>>

InvokeAnnotate ==
    /\ Len(calls) < MaxCalls
    /\ \E g \in GenesTables, e \in SessionDisgenetTables,
          psych_only \in BOOLEAN :
          /\ ~annotate_raises(g, e, psych_only)
          /\ gene_db' = annotate_with_disgenet(g, e, psych_only)
          /\ genes_df' = annotate_leaves(g, e).genes_df
          /\ disgenet_df' = annotate_leaves(g, e).disgenet_df
          /\ calls' = Append(calls,
                             [fn |-> "annotate_with_disgenet",
                              args |-> [genes_df |-> g, disgenet_df |-> e,
                                        psych_only |-> psych_only],
                              raised |-> FALSE,
                              out |-> annotate_with_disgenet(g, e, psych_only)])
    /\ pc' = "done"
    /\ UNCHANGED <<df, expanded_df, atlas_df, living_df, cpg_unmapped_strings,
                   unaccounted_df, appendix_c_df, mapping_df, result_df>>

NextSession ==
    InvokeAnalyze \/ InvokeAttach \/ InvokeAttachRaises \/ InvokeAnnotate

SpecSession == InitSession /\ [][NextSession]_vars

----------------------------------------------------------------------------
(* Properties of expand_cpg_gene_mappings *)

\* the rows of the expansion that come from source row i, in output order
ExpandedFrom(i) == SelectSeq(expanded_df, LAMBDA r : r.index = i - 1)

\* the k-th smallest element of a set of positions
KthPos(P, k) == CHOOSE p \in P : Cardinality({q \in P : q < p}) = k - 1

\* the number of pieces of a text delimited by the character sep, and the
\* k-th of them, read off the positions of sep
NPiecesBy(text, sep) == Cardinality(IndexesOf(text, sep)) + 1

PieceBy(text, sep, k) ==
    LET P == IndexesOf(text, sep)
        from == IF k = 1 THEN 1 ELSE KthPos(P, k - 1) + 1
        to == IF k = NPiecesBy(text, sep) THEN Len(text) ELSE KthPos(P, k) - 1
    IN SubSeq(text, from, to)

NPieces(field) == NPiecesBy(field, ",")
Piece(field, k) == PieceBy(field, ",", k)

\* the field holds only non-empty tokens
AllTokensNonEmpty(field) ==
    /\ field # NaN
    /\ \A k \in 1..NPieces(field) : Piece(field, k) # <<>>

\* tok without its leading and trailing whitespace: what lies between its
\* first and its last character that is no whitespace
TrimOf(tok) ==
    LET kept == {j \in 1..Len(tok) : ~IsSpace(tok[j])}
    IN IF kept = {} THEN <<>>
       ELSE SubSeq(tok, CHOOSE j \in kept : \A k \in kept : j <= k,
                        CHOOSE j \in kept : \A k \in kept : j >= k)

IsTrimOf(t, tok) == t = TrimOf(tok)

\* C1: every mapping row whose gene field is missing or is the empty string
\* expands to exactly one row, and that row's gene is "unmapped".
C1_MissingOrEmptyIsUnmapped ==
    pc = "done" =>
      \A i \in 1..Len(df) :
        df[i].unique_gene_name \in {NaN, <<>>} =>
          /\ Len(ExpandedFrom(i)) = 1
          /\ ExpandedFrom(i)[1].gene = Txt_unmapped

\* C2: a mapping row whose gene field holds N comma-separated non-empty
\* tokens expands to exactly N rows, one per token occurrence in source
\* order, repeated tokens included; each row's gene is the token without
\* its surrounding whitespace, and probe id, chromosome, start and end are
\* those of the source row.
C2_OneRowPerToken ==
    pc = "done" =>
      \A i \in 1..Len(df) :
        AllTokensNonEmpty(df[i].unique_gene_name) =>
          LET rows == ExpandedFrom(i)
              field == df[i].unique_gene_name
          IN /\ Len(rows) = NPieces(field)
             /\ \A k \in 1..Len(rows) :
                   /\ IsTrimOf(rows[k].gene, Piece(field, k))
                   /\ rows[k].cpg = df[i].cpg
                   /\ rows[k].chr = df[i].chr
                   /\ rows[k].Start_hg38 = df[i].Start_hg38
                   /\ rows[k].End_hg38 = df[i].End_hg38

\* C2 witness: a field of two non-empty tokens, one of them padded, that
\* trim to the same gene has been expanded into two rows of that gene.
C2_Witness ==
    /\ pc = "done"
    /\ \E i \in 1..Len(df) :
          /\ AllTokensNonEmpty(df[i].unique_gene_name)
          /\ NPieces(df[i].unique_gene_name) = 2
          /\ Piece(df[i].unique_gene_name, 1) # Piece(df[i].unique_gene_name, 2)
          /\ Len(ExpandedFrom(i)) = 2
          /\ ExpandedFrom(i)[1].gene = ExpandedFrom(i)[2].gene
          /\ ExpandedFrom(i)[1].gene # <<>>

----------------------------------------------------------------------------
(* Properties of analyze_unmapped_genes *)

\* the tokens of a reported-gene string: its non-blank ';'-delimited pieces
TokensOf(genes) ==
    IF genes = NaN THEN {}
    ELSE {TrimOf(PieceBy(genes, ";", k)) : k \in 1..NPiecesBy(genes, ";")}
            \ {<<>>}

\* the tokens the atlas reports for probe c, over all its rows
Reported(c) ==
    UNION {TokensOf(atlas_df[i].genes) :
             i \in {j \in 1..Len(atlas_df) : atlas_df[j].cpg = c}}

\* the canonical-symbol set of the gene table
Canonical == {living_df[i].symbol : i \in 1..Len(living_df)} \ {NaN, None}

HasDot(t) == \E j \in 1..Len(t) : t[j] = "."

StartsWith(t, prefix) ==
    Len(t) >= Len(prefix) /\ SubSeq(t, 1, Len(prefix)) = prefix

\* the tokens listed after a label in the returned text of a probe
ListedAfter(text, label) ==
    UNION { LET part == TrimOf(PieceBy(text, ";", k))
                body == SubSeq(part, Len(label) + 1, Len(part))
            IN IF StartsWith(part, label)
               THEN {TrimOf(PieceBy(body, ",", j)) :
                       j \in 1..NPiecesBy(body, ",")}
               ELSE {} : k \in 1..NPiecesBy(text, ";") }

\* the established-unmapped and unestablished-unmapped output of probe c
EstablishedOut(c) ==
    IF c \in DOMAIN cpg_unmapped_strings
    THEN ListedAfter(cpg_unmapped_strings[c], Txt_Established) ELSE {}

UnestablishedOut(c) ==
    IF c \in DOMAIN cpg_unmapped_strings
    THEN ListedAfter(cpg_unmapped_strings[c], Txt_Unestablished) ELSE {}

\* the ledger rows of a (probe, token)
LedgerRows(c, t) ==
    {k \in 1..Len(unaccounted_df) :
        unaccounted_df[k].cpg = c /\ unaccounted_df[k].uncaptured_gene = t}

\* the synonym index the call builds, and the tokens it resolves
Index == synonyms_map(living_df)
IsSynonym(t) == t \in DOMAIN Index

\* a synonym whose owner is a symbol: a non-empty text
HasOwner(t) == IsSynonym(t) /\ Index[t] \notin {NaN, None, <<>>}

\* C3: a token of the canonical-symbol set is in neither unmapped output
\* of any probe.
C3_CanonicalNeverUnmapped ==
    pc = "done" =>
      \A c \in Probes :
        LET out == EstablishedOut(c) \cup UnestablishedOut(c)
        IN \A t \in out : t \notin Canonical

\* C3 witness: a probe that reports a canonical token next to an unmapped
\* one has an unmapped output.
C3_Witness ==
    /\ pc = "done"
    /\ \E c \in Probes :
          /\ Reported(c) \cap Canonical # {}
          /\ EstablishedOut(c) # {}
          /\ \E i \in 1..Len(atlas_df) :
                /\ atlas_df[i].cpg = c
                /\ TokensOf(atlas_df[i].genes) \cap Canonical # {}
                /\ TokensOf(atlas_df[i].genes) \cap EstablishedOut(c) # {}

\* C4 as stated: a reported token that is no canonical symbol but a key of
\* the synonym index is in neither unmapped list of its probe, and the
\* ledger has a row for it whose synonym_of is non-empty and is the owner.
C4_SynonymInLedger ==
    pc = "done" =>
      \A c \in Probes :
        LET out == EstablishedOut(c) \cup UnestablishedOut(c)
        IN \A t \in Reported(c) :
             (t \notin Canonical /\ IsSynonym(t)) =>
               /\ t \notin out
               /\ \E k \in LedgerRows(c, t) :
                     /\ unaccounted_df[k].synonym_of # <<>>
                     /\ unaccounted_df[k].synonym_of = Index[t]

\* C4 amended: a reported token that is no canonical symbol but a key of
\* the synonym index is in neither unmapped list of its probe unless its
\* index entry is empty (an owner without symbol); without a decimal point
\* it has a ledger row, and each of its ledger rows names the index entry,
\* or the text "None" when that entry is empty; with a decimal point it
\* has no ledger row and is in the appendix.
C4_SynonymInLedgerUnlessDecimal ==
    pc = "done" =>
      \A c \in Probes :
        LET out == EstablishedOut(c) \cup UnestablishedOut(c)
        IN \A t \in Reported(c) :
             (t \notin Canonical /\ IsSynonym(t)) =>
               /\ Index[t] \notin {None, <<>>} => t \notin out
               /\ ~HasDot(t) =>
                     /\ LedgerRows(c, t) # {}
                     /\ \A k \in LedgerRows(c, t) :
                           unaccounted_df[k].synonym_of
                             = IF Index[t] \in {None, <<>>}
                               THEN Txt_None ELSE Index[t]
               /\ HasDot(t) =>
                     /\ LedgerRows(c, t) = {}
                     /\ \E k \in 1..Len(appendix_c_df) :
                           appendix_c_df[k] = [cpg |-> c, genes |-> t]

\* C4 witness: one reported string holds a synonym without decimal point,
\* which has a ledger row naming its owner, and a synonym with a decimal
\* point, which has none and is in the appendix.
C4_Witness ==
    /\ pc = "done"
    /\ \E i \in 1..Len(atlas_df) :
          \E t \in TokensOf(atlas_df[i].genes) :
          \E d \in TokensOf(atlas_df[i].genes) :
             /\ t \notin Canonical /\ HasOwner(t) /\ ~HasDot(t)
             /\ d \notin Canonical /\ HasOwner(d) /\ HasDot(d)
             /\ \E k \in LedgerRows(atlas_df[i].cpg, t) :
                   unaccounted_df[k].synonym_of = Index[t]
             /\ LedgerRows(atlas_df[i].cpg, d) = {}
             /\ \E k \in 1..Len(appendix_c_df) :
                   appendix_c_df[k] = [cpg |-> atlas_df[i].cpg, genes |-> d]

\* C5: every token with a decimal point of a non-missing reported-gene
\* string is in the appendix with its probe id, be it canonical, a synonym
\* or unmapped; the appendix holds no token without a decimal point and no
\* row twice.
C5_AppendixHoldsDecimals ==
    pc = "done" =>
      /\ \A i \in 1..Len(atlas_df) : \A t \in TokensOf(atlas_df[i].genes) :
            HasDot(t) =>
              \E k \in 1..Len(appendix_c_df) :
                 appendix_c_df[k] = [cpg |-> atlas_df[i].cpg, genes |-> t]
      /\ \A k \in 1..Len(appendix_c_df) :
            /\ HasDot(appendix_c_df[k].genes)
            /\ \A j \in 1..Len(appendix_c_df) :
                  appendix_c_df[j] = appendix_c_df[k] => j = k

\* C5 witness: a decimal token that is a canonical symbol, reported twice
\* for one probe, is in the appendix.
C5_Witness ==
    /\ pc = "done"
    /\ \E k \in 1..Len(appendix_c_df) :
          /\ appendix_c_df[k].genes \in Canonical
          /\ Cardinality({i \in 1..Len(atlas_df) :
                 /\ atlas_df[i].cpg = appendix_c_df[k].cpg
                 /\ appendix_c_df[k].genes \in TokensOf(atlas_df[i].genes)}) = 2

\* C6: every reported token that is neither a canonical symbol nor a
\* synonym is in exactly one unmapped list of its probe, the unestablished
\* one iff it has a decimal point; no list holds a token of the other kind.
C6_UnmappedInExactlyOneList ==
    pc = "done" =>
      \A c \in Probes :
        LET est == EstablishedOut(c)
            unest == UnestablishedOut(c)
        IN /\ \A t \in Reported(c) :
                 (t \notin Canonical /\ ~IsSynonym(t)) =>
                   /\ HasDot(t) => t \in unest /\ t \notin est
                   /\ ~HasDot(t) => t \in est /\ t \notin unest
           /\ \A t \in est : ~HasDot(t)
           /\ \A t \in unest : HasDot(t)

\* the reported tokens of probe c that are unmapped, by class
UnmappedOf(c, decimal) ==
    {t \in Reported(c) :
        t \notin Canonical /\ ~IsSynonym(t) /\ HasDot(t) = decimal}

\* the ascending list of a set of texts
RECURSIVE SortedSet(_)
SortedSet(S) ==
    IF S = {} THEN <<>>
    ELSE LET least == CHOOSE x \in S : \A y \in S \ {x} : StrLess(x, y)
         IN <<least>> \o SortedSet(S \ {least})

\* C7: the value returned for a probe is exactly its unmapped tokens of
\* one class, ascending, joined by ";\n", with no other text: a probe
\* whose only unmapped tokens are established has exactly that join.
C7_PlainJoinedList ==
    pc = "done" =>
      \A c \in Probes :
        (UnmappedOf(c, FALSE) # {} /\ UnmappedOf(c, TRUE) = {}) =>
          /\ c \in DOMAIN cpg_unmapped_strings
          /\ cpg_unmapped_strings[c]
               = Join(SortedSet(UnmappedOf(c, FALSE)), <<";", "\n">>)

----------------------------------------------------------------------------
(* Properties of attach_ewas_atlas_traits *)

\* the lines of a trait column, and the j-th field of a line
ColumnLines(text) ==
    [k \in 1..NPiecesBy(text, ";") |-> TrimOf(PieceBy(text, ";", k))]

Field(line, j) == TrimOf(PieceBy(line, ",", j))

DigitChars == {"0", "1", "2", "3", "4", "5", "6", "7", "8", "9"}

DigitValue(c) == CHOOSE d \in 0..9 : Digit(d) = c

\* the number a text of digits denotes
RECURSIVE TextToNat(_)
TextToNat(t) ==
    IF t = <<>> THEN 0
    ELSE 10 * TextToNat(Take(t, Len(t) - 1)) + DigitValue(t[Len(t)])

\* the text is a number with exactly three decimals
IsThreeDecimals(t) ==
    /\ Len(t) >= 5
    /\ t[Len(t) - 3] = "."
    /\ \A j \in (1..Len(t)) \ {Len(t) - 3} : t[j] \in DigitChars

\* the value, in thousandths, of a text with three decimals
ScoreValue(t) ==
    1000 * TextToNat(Take(t, Len(t) - 4)) + TextToNat(Drop(t, Len(t) - 3))

\* the record has a rank-score: rank and total present, total not 0
HasRank(r) ==
    r.rank # NaNum /\ r.total_associations # NaNum /\ r.total_associations # 0

\* the atlas records of probe c, in table order
RecordsOf(c) == SelectSeq(atlas_df, LAMBDA r : r.cpg = c)

\* the trait name a record is listed under
TraitName(r) == TrimOf(IF r.trait = NaN THEN Txt_nan ELSE r.trait)

\* the rows of the result that carry a trait column
WithTraits == {k \in 1..Len(result_df) : result_df[k].ewas_atlas_traits # NaN}

\* how often x occurs in a sequence
Count(seq, x) == Cardinality({k \in 1..Len(seq) : seq[k] = x})

\* C8: the lines of one CpG's trait column are ordered by descending
\* numeric rank-score, lines of equal score by ascending trait name.
C8_ScoreDescendingTraitAscending ==
    pc = "done" =>
      \A k \in WithTraits :
        LET lines == ColumnLines(result_df[k].ewas_atlas_traits)
        IN \A i \in 1..(Len(lines) - 1) :
             LET a == ScoreValue(Field(lines[i], 2))
                 b == ScoreValue(Field(lines[i + 1], 2))
             IN \/ a > b
                \/ /\ a = b
                   /\ ~StrLess(Field(lines[i + 1], 1), Field(lines[i], 1))

\* C9: in one CpG's trait column every record without a valid rank comes
\* after every record with a rank-score, whatever the score and the trait
\* names, and the records without a valid rank are in ascending order of
\* trait name.
C9_UnrankedLast ==
    pc = "done" =>
      \A k \in WithTraits :
        LET lines == ColumnLines(result_df[k].ewas_atlas_traits)
            names == [i \in 1..Len(lines) |-> Field(lines[i], 1)]
            recs == RecordsOf(result_df[k].cpg)
            ranked == SelectSeq(recs, HasRank)
            first == Take(names, Len(ranked))
            rest == Drop(names, Len(ranked))
        IN /\ \A i \in 1..Len(ranked) :
                 Count(first, TraitName(ranked[i]))
                   = Count([j \in 1..Len(ranked) |-> TraitName(ranked[j])],
                           TraitName(ranked[i]))
           /\ \A i \in 1..(Len(rest) - 1) : ~StrLess(rest[i + 1], rest[i])

\* the score shown for record r is its rank-score to three decimals, or
\* "0.000" when it has none
ShownScoreOf(text, r) ==
    IF HasRank(r)
    THEN /\ IsThreeDecimals(text)
         /\ LET d == ScoreValue(text) * r.total_associations - 1000 * r.rank
            IN 2 * d <= r.total_associations /\ 2 * d >= 0 - r.total_associations
    ELSE text = <<"0", ".", "0", "0", "0">>

\* C10: the score displayed for a trait record is rank / total_associations
\* to three decimals when both are present and the total is not 0, and is
\* "0.000" otherwise: the lines of a CpG correspond one to one to its atlas
\* records, each showing the trait and that score.
C10_DisplayedScore ==
    pc = "done" =>
      \A k \in WithTraits :
        LET lines == ColumnLines(result_df[k].ewas_atlas_traits)
            recs == RecordsOf(result_df[k].cpg)
        IN /\ Len(lines) = Len(recs)
           /\ \E f \in [1..Len(recs) -> 1..Len(recs)] :
                 /\ \A i, j \in 1..Len(recs) : f[i] = f[j] => i = j
                 /\ \A i \in 1..Len(recs) :
                       /\ Field(lines[f[i]], 1) = TraitName(recs[i])
                       /\ ShownScoreOf(Field(lines[f[i]], 2), recs[i])

\* C10 witness: a CpG with a record of rank 2 among 3, a record without
\* rank and a record with total 0 shows 0.667 once and 0.000 twice.
C10_Witness ==
    /\ pc = "done"
    /\ \E k \in WithTraits :
          LET lines == ColumnLines(result_df[k].ewas_atlas_traits)
              recs == RecordsOf(result_df[k].cpg)
              scores == [i \in 1..Len(lines) |-> Field(lines[i], 2)]
          IN /\ Len(recs) = 3
             /\ \E i \in 1..3 : recs[i].rank = 2 /\ recs[i].total_associations = 3
             /\ \E i \in 1..3 : recs[i].rank = NaNum
             /\ \E i \in 1..3 : recs[i].total_associations = 0
             /\ Count(scores, <<"0", ".", "6", "6", "7">>) = 1
             /\ Count(scores, <<"0", ".", "0", "0", "0">>) = 2

\* the pieces of a column text between the separators ";\n", untrimmed;
\* a piece after a ";" that no "\n" follows is kept whole
RawLines(text) ==
    [k \in 1..NPiecesBy(text, ";") |->
       LET piece == PieceBy(text, ";", k)
       IN IF k > 1 /\ piece # <<>> /\ piece[1] = "\n" THEN Drop(piece, 1)
          ELSE IF k > 1 THEN <<";">> \o piece ELSE piece]

\* the text is the decimal notation of the natural number n
IsDecimalOf(t, n) ==
    /\ t # <<>>
    /\ \A j \in 1..Len(t) : t[j] \in DigitChars
    /\ (Len(t) > 1 => t[1] # "0")
    /\ TextToNat(t) = n

\* the line is "{trait}, {score}, {corr}, {pmid}" of record r
IsTraitLineOf(line, r) ==
    /\ NPiecesBy(line, ",") = 4
    /\ PieceBy(line, ",", 1) = TraitName(r)
    /\ \A j \in 2..4 : LET p == PieceBy(line, ",", j)
                        IN p # <<>> /\ p[1] = " "
    /\ ShownScoreOf(Drop(PieceBy(line, ",", 2), 1), r)
    /\ Drop(PieceBy(line, ",", 3), 1)
         = (IF r.correlation = <<"p", "o", "s">> THEN <<"h", "y", "p", "e", "r">>
            ELSE IF r.correlation = <<"n", "e", "g">> THEN <<"h", "y", "p", "o">>
            ELSE <<"N", "R">>)
    /\ LET p == Drop(PieceBy(line, ",", 4), 1)
       IN IF r.pmid = NaNum THEN p = <<"N", "A">> ELSE IsDecimalOf(p, r.pmid)

\* C11: a CpG's trait column is the ";\n"-join, without leading or trailing
\* separator, of exactly one line per atlas record of that CpG, each line
\* being "{trait}, {score}, {corr}, {pmid}" with corr "hyper" for "pos",
\* "hypo" for "neg" and "NR" for any other or absent correlation, and pmid
\* the integer publication id or "NA" when it is absent.
C11_OneLinePerRecord ==
    pc = "done" =>
      \A k \in WithTraits :
        LET lines == RawLines(result_df[k].ewas_atlas_traits)
            recs == RecordsOf(result_df[k].cpg)
        IN /\ Len(lines) = Len(recs)
           /\ \E f \in [1..Len(recs) -> 1..Len(recs)] :
                 /\ \A i, j \in 1..Len(recs) : f[i] = f[j] => i = j
                 /\ \A i \in 1..Len(recs) : IsTraitLineOf(lines[f[i]], recs[i])

\* C11 witness: a CpG with three records, among them a "neg" record, a
\* record whose correlation is the text "NA" and a record without
\* correlation and publication id, shows three lines.
C11_Witness ==
    /\ pc = "done"
    /\ \E k \in WithTraits :
          LET recs == RecordsOf(result_df[k].cpg)
          IN /\ Len(recs) = 3
             /\ Len(RawLines(result_df[k].ewas_atlas_traits)) = 3
             /\ \E i \in 1..3 : recs[i].correlation = <<"n", "e", "g">>
             /\ \E i \in 1..3 : recs[i].correlation = <<"N", "A">>
             /\ \E i \in 1..3 : recs[i].correlation = NaN /\ recs[i].pmid = NaNum

----------------------------------------------------------------------------
(* Properties of annotate_with_disgenet *)

\* the columns a mode writes
SummaryColumn(psych_only) ==
    IF psych_only THEN "disgenet_psych_diseases" ELSE "disgenet_diseases"

LedgerColumn(psych_only) ==
    IF psych_only THEN "disgenet_psych_evidence" ELSE "disgenet_evidence"

\* the mode has been applied to the gene table
Annotated(psych_only) == SummaryColumn(psych_only) \in gene_db.columns

HasClassColumn == "diseaseClasses_UMLS_ST" \in disgenet_df.columns

TargetCategory ==
    <<"M", "e", "n", "t", "a", "l", " ", "o", "r", " ", "B", "e", "h", "a",
      "v", "i", "o", "r", "a", "l", " ", "D", "y", "s", "f", "u", "n", "c",
      "t", "i", "o", "n", " ", "(", "T", "0", "4", "8", ")">>

\* the record's class is the target category with nothing but whitespace
\* around it
InTargetClass(r) ==
    LET c == r.diseaseClasses_UMLS_ST
        n == Len(TargetCategory)
    IN /\ c # NaN
       /\ \E i \in 1..(Len(c) - n + 1) :
             /\ SubSeq(c, i, i + n - 1) = TargetCategory
             /\ \A j \in (1..Len(c)) \ (i..(i + n - 1)) : IsSpace(c[j])

\* the evidence records a mode selects, in table order
Selected(psych_only) ==
    IF psych_only /\ HasClassColumn
    THEN SelectSeq(disgenet_df.rows, InTargetClass)
    ELSE disgenet_df.rows

\* the selected records of one gene, and those of one of its diseases
EvidenceOf(symbol, psych_only) ==
    SelectSeq(Selected(psych_only),
              LAMBDA r : symbol # NaN /\ r.gene_symbol = symbol)

DiseaseRecords(evidence, disease) ==
    SelectSeq(evidence, LAMBDA r : r.disease_name = disease)

\* the gene rows whose summary a mode has filled
Summarised(psych_only) ==
    IF Annotated(psych_only)
    THEN {k \in 1..Len(gene_db.rows) :
            gene_db.rows[k][SummaryColumn(psych_only)] # NaN}
    ELSE {}

SummaryLines(k, psych_only) ==
    RawLines(gene_db.rows[k][SummaryColumn(psych_only)])

LedgerLines(k, psych_only) ==
    RawLines(gene_db.rows[k][LedgerColumn(psych_only)])

\* a line's text before its first ", " and after it
LineName(line) == PieceBy(line, ",", 1)
LineRest(line) == Drop(line, Len(LineName(line)) + 2)

\* the scores of a sequence of records, and the largest that is present
ScoresOf(recs) == {recs[j].score : j \in 1..Len(recs)}

TopScore(recs) ==
    CHOOSE s \in ScoresOf(recs) \ {NaNum} :
       \A t \in ScoresOf(recs) \ {NaNum} : t <= s

\* the text is the number of tenths s written as a float, nan for no score
IsFloatOf(t, s) ==
    IF s = NaNum THEN t = <<"n", "a", "n">>
    ELSE /\ Len(t) >= 3
         /\ t[Len(t) - 1] = "."
         /\ IsDecimalOf(Take(t, Len(t) - 2), s \div 10)
         /\ IsDecimalOf(Drop(t, Len(t) - 1), s % 10)

\* every disease of the evidence has a score in some record
AllScored(evidence) ==
    \A j \in 1..Len(evidence) :
       ScoresOf(DiseaseRecords(evidence, evidence[j].disease_name)) # {NaNum}

\* C12: for each (gene, disease) group of the selected records, the summary
\* line shows the score when all records of the group carry the same score
\* and the literal "error" when they carry two or more distinct scores; the
\* lines are sorted by that score, resp. by the largest score of the group.
C12_ConflictShowsErrorSortsByMax ==
    \A m \in BOOLEAN : \A k \in Summarised(m) :
       LET lines == SummaryLines(k, m)
           evidence == EvidenceOf(gene_db.rows[k].symbol, m)
           recs == [i \in 1..Len(lines) |->
                      DiseaseRecords(evidence, LineName(lines[i]))]
       IN /\ \A i \in 1..Len(lines) :
               /\ recs[i] # <<>>
               /\ IF Cardinality(ScoresOf(recs[i])) > 1
                  THEN LineRest(lines[i]) = <<"e", "r", "r", "o", "r">>
                  ELSE IsFloatOf(LineRest(lines[i]), recs[i][1].score)
          /\ AllScored(evidence) =>
               \A i \in 1..(Len(lines) - 1) :
                  TopScore(recs[i]) >= TopScore(recs[i + 1])

\* C12 witness: a gene whose first line shows "error" for a disease with a
\* record scored below and a record scored above the single score of the
\* disease on its second line.
C12_Witness ==
    \E m \in BOOLEAN : \E k \in Summarised(m) :
       LET lines == SummaryLines(k, m)
           evidence == EvidenceOf(gene_db.rows[k].symbol, m)
           recs == [i \in 1..Len(lines) |->
                      DiseaseRecords(evidence, LineName(lines[i]))]
       IN /\ Len(lines) = 2
          /\ LineRest(lines[1]) = <<"e", "r", "r", "o", "r">>
          /\ Cardinality(ScoresOf(recs[2])) = 1
          /\ \E s \in ScoresOf(recs[2]) :
                /\ s # NaNum
                /\ \E a, b \in ScoresOf(recs[1]) :
                      a # NaNum /\ a < s /\ s < b

\* C13: the summary lines of one gene are ordered by descending sort score,
\* and diseases of equal sort score by ascending lexical order of the
\* disease name (stated for the genes all of whose diseases have a score).
C13_DescendingScoreThenName ==
    \A m \in BOOLEAN : \A k \in Summarised(m) :
       LET lines == SummaryLines(k, m)
           evidence == EvidenceOf(gene_db.rows[k].symbol, m)
           recs == [i \in 1..Len(lines) |->
                      DiseaseRecords(evidence, LineName(lines[i]))]
       IN AllScored(evidence) =>
            \A i \in 1..(Len(lines) - 1) :
               \/ TopScore(recs[i]) > TopScore(recs[i + 1])
               \/ /\ TopScore(recs[i]) = TopScore(recs[i + 1])
                  /\ ~StrLess(LineName(lines[i + 1]), LineName(lines[i]))

\* the gene rows whose ledger a mode has filled
Ledgered(psych_only) ==
    IF Annotated(psych_only)
    THEN {k \in 1..Len(gene_db.rows) :
            gene_db.rows[k][LedgerColumn(psych_only)] # NaN}
    ELSE {}

\* the polarity and the year a ledger line shows
LinePolarity(line) == Drop(PieceBy(line, ",", 2), 1)
LineYear(line) == Drop(PieceBy(line, ",", 3), 1)

\* the rank of a polarity as shown: Positive, absent, Negative, any other
ShownPolarityRank(p) ==
    IF p = <<"P", "o", "s", "i", "t", "i", "v", "e">> THEN 0
    ELSE IF p = <<"N", "A", "P", "o", "l", "a", "r", "i", "t", "y">> THEN 1
    ELSE IF p = <<"N", "e", "g", "a", "t", "i", "v", "e">> THEN 2
    ELSE 3

YearMissing(y) == y = <<"N", "A">>

\* C14: within one disease block of the evidence ledger the lines are in
\* ascending polarity rank (Positive 0, absent 1, Negative 2, other 3) and,
\* at equal rank, in ascending publication year, every line without year
\* after every line with a year.
C14_PolarityThenYear ==
    \A m \in BOOLEAN : \A k \in Ledgered(m) :
       LET lines == LedgerLines(k, m)
       IN \A i, j \in 1..Len(lines) :
            (i < j /\ LineName(lines[i]) = LineName(lines[j])) =>
               LET a == ShownPolarityRank(LinePolarity(lines[i]))
                   b == ShownPolarityRank(LinePolarity(lines[j]))
               IN \/ a < b
                  \/ /\ a = b
                     /\ \/ YearMissing(LineYear(lines[j]))
                        \/ /\ ~YearMissing(LineYear(lines[i]))
                           /\ TextToNat(LineYear(lines[i]))
                                <= TextToNat(LineYear(lines[j]))

\* C14 witness: a block of three lines, a Positive line before two Negative
\* lines of which the one without year is last, for a gene whose first
\* record is the Negative record without year.
C14_Witness ==
    \E m \in BOOLEAN : \E k \in Ledgered(m) :
       LET lines == LedgerLines(k, m)
           evidence == EvidenceOf(gene_db.rows[k].symbol, m)
       IN /\ Len(lines) = 3
          /\ \A i \in 1..3 : LineName(lines[i]) = LineName(lines[1])
          /\ ShownPolarityRank(LinePolarity(lines[1])) = 0
          /\ ShownPolarityRank(LinePolarity(lines[2])) = 2
          /\ ShownPolarityRank(LinePolarity(lines[3])) = 2
          /\ ~YearMissing(LineYear(lines[2]))
          /\ YearMissing(LineYear(lines[3]))
          /\ evidence[1].pmYear = NaNum
          /\ evidence[1].polarity = <<"N", "e", "g", "a", "t", "i", "v", "e">>

\* the names of the lines, in order
LineNames(lines) == [i \in 1..Len(lines) |-> LineName(lines[i])]

\* the diseases of a sequence of records
DiseasesOf(evidence) == {evidence[j].disease_name : j \in 1..Len(evidence)}

\* C15: for every gene with matching evidence the ledger holds exactly one
\* line per selected evidence record of the gene (every record of a
\* score-conflicting group included), the summary exactly one line per
\* distinct disease, and the disease blocks of the ledger come in the order
\* of the summary lines.
C15_OneLinePerRecordBlocksInSummaryOrder ==
    \A m \in BOOLEAN : \A k \in Summarised(m) :
       LET evidence == EvidenceOf(gene_db.rows[k].symbol, m)
           summary == LineNames(SummaryLines(k, m))
           ledger == LineNames(LedgerLines(k, m))
       IN /\ k \in Ledgered(m)
          /\ Len(ledger) = Len(evidence)
          /\ \A d \in DiseasesOf(evidence) :
                /\ Count(ledger, d) = Len(DiseaseRecords(evidence, d))
                /\ Count(summary, d) = 1
          /\ Len(summary) = Cardinality(DiseasesOf(evidence))
          /\ \A a, b \in 1..Len(summary) :
                a < b =>
                  \A i, j \in 1..Len(ledger) :
                     (ledger[i] = summary[a] /\ ledger[j] = summary[b])
                        => i < j

\* C15 witness: a gene with three records of two diseases, the records of
\* the first disease in the table apart from each other and of different
\* scores, has two summary lines and three ledger lines, and the disease
\* that comes first in the table comes last in both.
C15_Witness ==
    \E m \in BOOLEAN : \E k \in Summarised(m) :
       LET evidence == EvidenceOf(gene_db.rows[k].symbol, m)
           summary == LineNames(SummaryLines(k, m))
           ledger == LineNames(LedgerLines(k, m))
       IN /\ Len(evidence) = 3
          /\ evidence[1].disease_name = evidence[3].disease_name
          /\ evidence[1].disease_name # evidence[2].disease_name
          /\ evidence[1].score # evidence[3].score
          /\ Len(summary) = 2
          /\ Len(ledger) = 3
          /\ summary[2] = evidence[1].disease_name
          /\ ledger[1] = evidence[2].disease_name

AllEvidenceOf(symbol) ==
    SelectSeq(disgenet_df.rows,
              LAMBDA r : symbol # NaN /\ r.gene_symbol = symbol)

\* the lines of the filtered columns of gene row k come from the records
\* given: every disease named is the disease of one of them, and the ledger
\* has no more lines than there are records
FilteredComesFrom(k, records) ==
    /\ \A i \in 1..Len(SummaryLines(k, TRUE)) :
          LineName(SummaryLines(k, TRUE)[i]) \in DiseasesOf(records)
    /\ \A i \in 1..Len(LedgerLines(k, TRUE)) :
          LineName(LedgerLines(k, TRUE)[i]) \in DiseasesOf(records)
    /\ Len(LedgerLines(k, TRUE)) <= Len(records)

\* C17: in filtered mode every disease named in a gene's filtered summary
\* or ledger comes from an evidence record whose class is the target
\* category, and a record without a matching class value never contributes
\* to the filtered columns, for every input table.
C17_FilteredOnlyTargetClass ==
    \A k \in Summarised(TRUE) :
       FilteredComesFrom(k,
          SelectSeq(AllEvidenceOf(gene_db.rows[k].symbol),
                    LAMBDA r : HasClassColumn /\ InTargetClass(r)))

\* C17 amended: for every input table that has the class column, every
\* disease named in a gene's filtered summary or ledger comes from an
\* evidence record whose class, stripped of surrounding whitespace, is the
\* target category, and no other record contributes; for a table without
\* the class column the filtered columns are computed from all records.
C17_FilteredOnlyTargetClassIfColumn ==
    \A k \in Summarised(TRUE) :
       IF HasClassColumn
       THEN FilteredComesFrom(k,
               SelectSeq(AllEvidenceOf(gene_db.rows[k].symbol), InTargetClass))
       ELSE /\ FilteredComesFrom(k, AllEvidenceOf(gene_db.rows[k].symbol))
            /\ Len(LedgerLines(k, TRUE))
                 = Len(AllEvidenceOf(gene_db.rows[k].symbol))

\* C17 witness: a gene with a record of the target class and a record of
\* another class and disease has one filtered ledger line, and the other
\* disease is named in neither filtered column.
C17_Witness ==
    /\ HasClassColumn
    /\ \E k \in Summarised(TRUE) :
          LET records == AllEvidenceOf(gene_db.rows[k].symbol)
          IN /\ Len(records) = 2
             /\ InTargetClass(records[1])
             /\ ~InTargetClass(records[2])
             /\ records[1].disease_name # records[2].disease_name
             /\ LineNames(SummaryLines(k, TRUE)) = <<records[1].disease_name>>
             /\ LineNames(LedgerLines(k, TRUE)) = <<records[1].disease_name>>

\* the four columns of the two modes
DisgenetColumns ==
    {"disgenet_diseases", "disgenet_evidence",
     "disgenet_psych_diseases", "disgenet_psych_evidence"}

\* C18: the two modes write to disjoint column pairs: a call of either mode
\* leaves the row count, the row order and every column the table already
\* has (the input columns and the columns the other mode wrote) unchanged,
\* adds its own pair, and after both modes, in either order, the table
\* holds all four columns.
C18_ModesWriteDisjointColumns ==
    [][pc' \in {"broad", "psych", "done"} =>
         /\ Len(gene_db'.rows) = Len(gene_db.rows)
         /\ gene_db.columns \subseteq gene_db'.columns
         /\ \A k \in 1..Len(gene_db.rows) :
               \A c \in gene_db.columns :
                  gene_db'.rows[k][c] = gene_db.rows[k][c]
         /\ Cardinality(gene_db'.columns \cap DisgenetColumns)
              = Cardinality(gene_db.columns \cap DisgenetColumns) + 2
         /\ pc' = "done" =>
               gene_db'.columns = genes_df.columns \cup DisgenetColumns]_vars

\* C18 witness: both modes have been applied and some gene has a broad
\* summary and a broad ledger that differ from its filtered ones.
C18_Witness ==
    /\ pc = "done"
    /\ mapping_df = <<>>
    /\ gene_db.columns = genes_df.columns \cup DisgenetColumns
    /\ \E k \in 1..Len(gene_db.rows) :
          /\ gene_db.rows[k].disgenet_psych_diseases # NaN
          /\ gene_db.rows[k].disgenet_diseases
               # gene_db.rows[k].disgenet_psych_diseases
          /\ gene_db.rows[k].disgenet_evidence
               # gene_db.rows[k].disgenet_psych_evidence

EndsWith(t, suffix) ==
    /\ Len(t) >= Len(suffix)
    /\ Drop(t, Len(t) - Len(suffix)) = suffix

\* the text reads as a natural number: digits with whitespace around them
ReadsAsInt(t) ==
    /\ TrimOf(t) # <<>>
    /\ \A j \in 1..Len(TrimOf(t)) : TrimOf(t)[j] \in DigitChars

\* the reference shown for record r: for a PMID the integer form of the
\* value, or the raw value as text when it is not numeric; for any other
\* reference type "{value or NA} ({source}, {association type})"
IsReferenceOf(ref, r) ==
    IF r.reference_type = <<"P", "M", "I", "D">>
    THEN CASE r.reference.kind = "num" -> IsDecimalOf(ref, r.reference.val)
           [] r.reference.kind = "nan" -> ref = <<"n", "a", "n">>
           [] r.reference.kind = "str" ->
                IF ReadsAsInt(r.reference.val)
                THEN IsDecimalOf(ref, TextToNat(TrimOf(r.reference.val)))
                ELSE ref = r.reference.val
    ELSE LET suffix == <<" ", "(">> \o r.source \o <<",", " ">>
                         \o r.associationType \o <<")">>
             value == Take(ref, Len(ref) - Len(suffix))
         IN /\ EndsWith(ref, suffix)
            /\ CASE r.reference.kind = "nan" -> value = <<"N", "A">>
                 [] r.reference.kind = "str" -> value = r.reference.val
                 [] r.reference.kind = "num" ->
                      \/ IsDecimalOf(value, r.reference.val)
                      \/ /\ EndsWith(value, <<".", "0">>)
                         /\ IsDecimalOf(Take(value, Len(value) - 2),
                                        r.reference.val)

\* the line is "{disease}, {polarity or NAPolarity}, {year or NA},
\* {reference}" of record r
IsEvidenceLineOf(line, r) ==
    LET prefix == r.disease_name \o <<",", " ">>
                    \o (IF r.polarity = NaN
                        THEN <<"N", "A", "P", "o", "l", "a", "r", "i", "t", "y">>
                        ELSE r.polarity)
                    \o <<",", " ">>
        rest == Drop(line, Len(prefix))
        year == PieceBy(rest, ",", 1)
    IN /\ StartsWith(line, prefix)
       /\ IF r.pmYear = NaNum THEN year = <<"N", "A">>
          ELSE IsDecimalOf(year, r.pmYear)
       /\ Len(rest) >= Len(year) + 2
       /\ SubSeq(rest, Len(year) + 1, Len(year) + 2) = <<",", " ">>
       /\ IsReferenceOf(Drop(rest, Len(year) + 2), r)

\* C19: the evidence column is the ";\n"-join of one line per evidence
\* record, each line being "{disease}, {polarity or NAPolarity}, {year or
\* NA}, {reference}", the reference being the integer form of the value for
\* reference type "PMID" (the raw value as text when it is not numeric) and
\* "{value or NA} ({source}, {association type})" for any other type.
C19_EvidenceLineFormat ==
    \A m \in BOOLEAN : \A k \in Ledgered(m) :
       LET lines == LedgerLines(k, m)
           evidence == EvidenceOf(gene_db.rows[k].symbol, m)
           n == Len(evidence)
       IN /\ Len(lines) = n
          /\ \E f \in [1..n -> 1..n] :
                /\ \A i, j \in 1..n : f[i] = f[j] => i = j
                /\ \A i \in 1..n : IsEvidenceLineOf(lines[f[i]], evidence[i])

\* C19 witness: a ledger of three lines, one of a PMID record whose
\* reference is a text that reads as a number, shown as that number, and
\* one of a record of another reference type.
C19_Witness ==
    \E m \in BOOLEAN : \E k \in Ledgered(m) :
       LET lines == LedgerLines(k, m)
           evidence == EvidenceOf(gene_db.rows[k].symbol, m)
       IN /\ Len(lines) = 3
          /\ Len(evidence) = 3
          /\ \E i \in 1..3 :
                /\ evidence[i].reference_type = <<"P", "M", "I", "D">>
                /\ evidence[i].reference.kind = "str"
                /\ ReadsAsInt(evidence[i].reference.val)
                /\ \E j \in 1..3 : EndsWith(lines[j], <<",", " ", "7">>)
          /\ \E i \in 1..3 :
                /\ evidence[i].reference_type # <<"P", "M", "I", "D">>
                /\ \E j \in 1..3 : EndsWith(lines[j], <<")">>)

\* C20: never fail the batch: annotate_with_disgenet returns a result
\* without raising for every input table in which a row has a missing or
\* malformed field (here: a missing disease name, score, polarity, year or
\* reference).
C20_NeverFailsTheBatch == pc # "raised"

----------------------------------------------------------------------------
(* Properties of the synonym index of analyze_unmapped_genes *)

IsTextCell(cell) == ~IsNa(cell) /\ ~IsNumberCell(cell) /\ ~IsListCell(cell)

LooksJson(cell) == IsTextCell(cell) /\ cell # <<>> /\ cell[1] = "["

\* a quoted string literal without inner quote
IsQuoted(t) ==
    /\ Len(t) >= 2
    /\ t[1] = "\"" /\ t[Len(t)] = "\""
    /\ \A j \in 2..(Len(t) - 1) : t[j] # "\""

\* the text between the brackets of a cell that starts with '['
Bracketed(cell) == SubSeq(TrimOf(cell), 2, Len(TrimOf(cell)) - 1)

\* the cell reads as a JSON array of string literals
IsJsonArray(cell) ==
    /\ LooksJson(cell)
    /\ Len(TrimOf(cell)) >= 2
    /\ TrimOf(cell)[Len(TrimOf(cell))] = "]"
    /\ \/ TrimOf(Bracketed(cell)) = <<>>
       \/ \A k \in 1..NPiecesBy(Bracketed(cell), ",") :
             IsQuoted(TrimOf(PieceBy(Bracketed(cell), ",", k)))

\* a synonym field that cannot be parsed: a text that starts with '[' and
\* is no JSON array, or a number
Malformed(cell) ==
    \/ IsNumberCell(cell)
    \/ LooksJson(cell) /\ ~IsJsonArray(cell)

\* the synonyms a well-formed field lists
Listed(cell) ==
    IF IsNa(cell) \/ Malformed(cell) THEN {}
    ELSE IF IsListCell(cell)
    THEN {cell[2][k] : k \in {j \in 1..Len(cell[2]) : ~IsNa(cell[2][j])}}
    ELSE IF IsJsonArray(cell)
    THEN (IF TrimOf(Bracketed(cell)) = <<>> THEN {}
          ELSE {LET q == TrimOf(PieceBy(Bracketed(cell), ",", k))
                IN SubSeq(q, 2, Len(q) - 1) :
                   k \in 1..NPiecesBy(Bracketed(cell), ",")})
    ELSE {TrimOf(PieceBy(cell, ";", k)) : k \in 1..NPiecesBy(cell, ";")}
         \ {<<>>}

HasSequence ==
    \E k \in 1..Len(living_df) : IsListCell(living_df[k].synonyms)

\* the gene table with the fields that cannot be parsed taken as missing
MalformedAsMissing ==
    [k \in 1..Len(living_df) |->
        IF Malformed(living_df[k].synonyms)
        THEN [living_df[k] EXCEPT !.synonyms = NaN]
        ELSE living_df[k]]

\* C21: a gene record whose synonym field cannot be parsed does not abort
\* the build (the call fails only on a table that holds an actual sequence,
\* never on account of the unparsable field), and the synonym index of the
\* call is the index of the same table with those fields missing: the
\* record contributes no entry and the entries of the others are the same.
C21_MalformedSynonymsSwallowed ==
    /\ (pc = "raised" => HasSequence)
    /\ (pc = "done" => Index = synonyms_map(MalformedAsMissing))

\* C21: a call that returned on a table with an unparsable field next to a
\* record that lists synonyms
C21_Witness ==
    /\ pc = "done"
    /\ \E k, j \in 1..Len(living_df) :
          /\ Malformed(living_df[k].synonyms)
          /\ LooksJson(living_df[k].synonyms)
          /\ Listed(living_df[j].synonyms) \subseteq DOMAIN Index
          /\ Listed(living_df[j].synonyms) # {}

\* the last record of the gene table that lists the synonym s
LastListing(s) ==
    CHOOSE k \in 1..Len(living_df) :
        /\ s \in Listed(living_df[k].synonyms)
        /\ \A j \in (k + 1)..Len(living_df) :
              s \notin Listed(living_df[j].synonyms)

\* every synonym a record lists is a key of the index, mapped to the symbol
\* of the record (of the last one that lists it)
ListedAreIndexed ==
    \A k \in 1..Len(living_df) :
        \A s \in Listed(living_df[k].synonyms) :
            /\ s \in DOMAIN Index
            /\ Index[s] = living_df[LastListing(s)].symbol

\* C22: the synonym field is accepted as a JSON-array string, as a
\* ';'-delimited string and as an actual sequence of any length: the call
\* returns, and every listed synonym is a key of the synonym index mapped
\* to the symbol of its record.
C22_ThreeFormsAccepted ==
    /\ pc # "raised"
    /\ (pc = "done" => ListedAreIndexed)

\* a gene record without join key: its symbol is empty or absent
Symbolless(r) == r.symbol \in {<<>>, NaN, None}

WithoutSymbolless == SelectSeq(living_df, LAMBDA r : ~Symbolless(r))

\* C23: a gene record whose symbol is empty or absent is excluded from the
\* construction of the indices: the canonical-symbol set and the synonym
\* index are those of the table without such records, and so are the three
\* outputs of the call (a token equal to one of its synonyms is classified
\* as if the record did not exist).
C23_SymbollessRecordExcluded ==
    pc = "done" =>
        /\ existing_symbols(living_df) = existing_symbols(WithoutSymbolless)
        /\ Index = synonyms_map(WithoutSymbolless)
        /\ LET ret == analyze_unmapped_genes(atlas_df, WithoutSymbolless)
           IN /\ cpg_unmapped_strings = ret.cpg_unmapped_strings
              /\ unaccounted_df = ret.unaccounted_df
              /\ appendix_c_df = ret.appendix_c_df

\* the synonyms that two records of the gene table list
ClaimedTwice ==
    {s \in UNION {Listed(living_df[k].synonyms) : k \in 1..Len(living_df)} :
        \E i, j \in 1..Len(living_df) :
            /\ i < j
            /\ s \in Listed(living_df[i].synonyms)
            /\ s \in Listed(living_df[j].synonyms)}

\* C28: when two gene records list the same synonym, the synonym index maps
\* it to the symbol of the record that comes later in the gene table, and
\* every ledger row of that token has that later symbol as synonym_of.
C28_LaterRecordWins ==
    pc = "done" =>
        \A s \in ClaimedTwice :
            /\ Index[s] = living_df[LastListing(s)].symbol
            /\ \A n \in 1..Len(unaccounted_df) :
                  unaccounted_df[n].uncaptured_gene = s
                  => unaccounted_df[n].synonym_of
                       = living_df[LastListing(s)].symbol

----------------------------------------------------------------------------
(* Properties of the outputs of analyze_unmapped_genes *)

\* the text of the returned entry of probe c has a part with this label
HasPart(c, label) ==
    /\ c \in DOMAIN cpg_unmapped_strings
    /\ \E k \in 1..NPiecesBy(cpg_unmapped_strings[c], ";") :
          StartsWith(TrimOf(PieceBy(cpg_unmapped_strings[c], ";", k)), label)

\* the rows of the atlas table that report the token t for probe c
ReportingRows(c, t) ==
    {i \in 1..Len(atlas_df) :
        atlas_df[i].cpg = c /\ t \in TokensOf(atlas_df[i].genes)}

\* the reported tokens of probe c that no symbol and no index entry resolve
\* (an entry that is empty or None resolves nothing), by class
Unresolved(c, decimal) ==
    {t \in Reported(c) :
        /\ t \notin Canonical
        /\ ~(IsSynonym(t) /\ Index[t] \notin {None, <<>>})
        /\ HasDot(t) = decimal}

\* C25: a probe has an entry in an unmapped output if and only if one of
\* its reported tokens falls in that class; no entry is the empty text; and
\* every ledger and appendix row comes from a reported-gene string that is
\* present (a probe whose string is absent contributes nothing).
C25_EntryIffUnmappedToken ==
    pc = "done" =>
      /\ \A c \in Probes :
            /\ HasPart(c, Txt_Established) <=> Unresolved(c, FALSE) # {}
            /\ HasPart(c, Txt_Unestablished) <=> Unresolved(c, TRUE) # {}
      /\ \A c \in DOMAIN cpg_unmapped_strings : cpg_unmapped_strings[c] # <<>>
      /\ \A k \in 1..Len(unaccounted_df) :
            /\ unaccounted_df[k].ewas_genes # NaN
            /\ ReportingRows(unaccounted_df[k].cpg,
                             unaccounted_df[k].uncaptured_gene) # {}
      /\ \A k \in 1..Len(appendix_c_df) :
            ReportingRows(appendix_c_df[k].cpg, appendix_c_df[k].genes) # {}

\* the number of tokens listed after a label in the entry of probe c
ListedCount(c, label) ==
    IF ~HasPart(c, label) THEN 0
    ELSE LET text == cpg_unmapped_strings[c]
             k == CHOOSE n \in 1..NPiecesBy(text, ";") :
                     StartsWith(TrimOf(PieceBy(text, ";", n)), label)
         IN NPiecesBy(PieceBy(text, ";", k), ",")

\* C27: the established (unestablished) output of a probe is the set of the
\* unmapped tokens of that class over all the reported-gene strings of the
\* probe, in whatever order the strings come, each token listed once.
C27_AllStringsEachTokenOnce ==
    pc = "done" =>
      \A c \in Probes :
        /\ EstablishedOut(c) = Unresolved(c, FALSE)
        /\ UnestablishedOut(c) = Unresolved(c, TRUE)
        /\ ListedCount(c, Txt_Established) = Cardinality(EstablishedOut(c))
        /\ ListedCount(c, Txt_Unestablished)
             = Cardinality(UnestablishedOut(c))

\* the ledger has a row for a reported (probe, token) exactly when the
\* token is no canonical symbol and has no decimal point, and every row
\* carries its probe id, a reported string of the probe and a token of it
LedgerRowPerAliasOrUnmapped ==
    /\ \A c \in Probes : \A t \in Reported(c) :
          LedgerRows(c, t) # {} <=> (t \notin Canonical /\ ~HasDot(t))
    /\ \A k \in 1..Len(unaccounted_df) :
          \E i \in ReportingRows(unaccounted_df[k].cpg,
                                 unaccounted_df[k].uncaptured_gene) :
             unaccounted_df[k].ewas_genes = atlas_df[i].genes

\* C26 as stated: the ledger has a row for a reported (probe, token) iff
\* the token is no canonical symbol and contains no '.'; each row carries
\* the probe id, the reported string, the token, and a synonym-parent that
\* is the owning symbol when the token is a synonym and is empty otherwise.
C26_LedgerParentOrEmpty ==
    pc = "done" =>
      /\ LedgerRowPerAliasOrUnmapped
      /\ \A k \in 1..Len(unaccounted_df) :
            unaccounted_df[k].synonym_of
              = IF IsSynonym(unaccounted_df[k].uncaptured_gene)
                THEN Index[unaccounted_df[k].uncaptured_gene] ELSE <<>>

\* C26 amended: the same rows, whose synonym-parent is the index entry of
\* the token when there is one that is neither empty nor None, and is the
\* text "None" otherwise.
C26_LedgerParentOrNoneText ==
    pc = "done" =>
      /\ LedgerRowPerAliasOrUnmapped
      /\ \A k \in 1..Len(unaccounted_df) :
            LET t == unaccounted_df[k].uncaptured_gene
            IN unaccounted_df[k].synonym_of
                 = IF IsSynonym(t) /\ Index[t] \notin {None, <<>>}
                   THEN Index[t] ELSE Txt_None

\* C26 witness: the ledger of a returned call names the owner of an alias,
\* shows "None" for a token that is no synonym, and has no row for a
\* reported canonical symbol.
C26_Witness ==
    /\ pc = "done"
    /\ \E k, n \in 1..Len(unaccounted_df) :
          /\ HasOwner(unaccounted_df[k].uncaptured_gene)
          /\ unaccounted_df[k].synonym_of = T_G2
          /\ ~IsSynonym(unaccounted_df[n].uncaptured_gene)
          /\ unaccounted_df[n].synonym_of = Txt_None
    /\ \E c \in Probes : \E t \in Reported(c) :
          t \in Canonical /\ LedgerRows(c, t) = {}

----------------------------------------------------------------------------
(* Properties of the merge of attach_ewas_atlas_traits *)

\* C30: the result has one row per mapping row, in the same order, with
\* every column of the mapping row unchanged and the single column
\* ewas_atlas_traits added (so no atlas record adds a row), and the mapping
\* rows of one probe id have the same trait value.
C30_MappingPreservedPlusTraitColumn ==
    pc = "done" =>
      /\ Len(result_df) = Len(mapping_df)
      /\ \A k \in 1..Len(result_df) :
            /\ DOMAIN result_df[k]
                 = DOMAIN mapping_df[k] \cup {"ewas_atlas_traits"}
            /\ \A f \in DOMAIN mapping_df[k] :
                  result_df[k][f] = mapping_df[k][f]
            /\ \A j \in 1..Len(result_df) :
                  result_df[j].cpg = result_df[k].cpg
                  => result_df[j].ewas_atlas_traits
                       = result_df[k].ewas_atlas_traits

----------------------------------------------------------------------------
(* Properties of the four functions together *)

----------------------------------------------------------------------------
(* Properties of a process that invokes the functions several times *)

\* the symbols of a gene table
SymbolsOf(living) == {living[k].symbol : k \in 1..Len(living)}

====
